---- MODULE Spec2Model ----
(***************************************************************************)
(* Frame pacing and GPU synchronisation of the two applications of         *)
(* src/ComputeShader/main.cpp: ComputeShaderApplication (compute-particle) *)
(* and TriangleApplication (textured model).                               *)
(*                                                                         *)
(* The host thread is a program counter `pc` over the Vulkan / GLFW calls  *)
(* of init_vulkan, main_loop, draw_frame, recreate_swap_chain and cleanup. *)
(* The device is the set `ops` of pending compute and graphics submissions *)
(* and image acquisitions, ordered only by the fences and semaphores the   *)
(* host hands to them, and the queue `presents` of pending presentations.  *)
(***************************************************************************)
EXTENDS Integers, FiniteSets, Sequences, TLC

\* ------------------------------------------------------------------ bounds
MaxFrames == 16        \* largest frames-in-flight count SpecDescriptors draws
MaxSwapChains == 2     \* swapchains created in one run (the first included)
ImageCount == 2        \* images of a swapchain
MaxParticles == 600    \* largest particle count SpecDispatch draws
MaxFormats == 2        \* surface formats the surface reports at most
MaxExtent == 2         \* largest width and height SpecSwapChain draws
MaxImages == 2         \* largest minImageCount SpecSwapChain draws
MaxSimFrames == 3      \* frames SpecSim presents at most

\* ------------------------------------------------------- program constants
max_frames_in_flight == 2
SizeBits == 64         \* width of size_t, the type of the loop index i
particle_count == 8192
GroupSize == 256       \* the divisor in record_compute_command_buffer

VARIABLES
    app,                          \* which application runs
    nframes,                      \* the frames-in-flight count N
    nparticles,                   \* the particle count
    pc,                           \* the host's position
    ds_i,                         \* loop index of create_compute_descriptor_sets
    compute_descriptor_sets,      \* slot -> bindings
    current_frame,
    framebuffer_resized,
    should_close,                 \* main_loop has seen glfwWindowShouldClose hold
    close_flag,                   \* the window's close flag, where it is tracked
    events_processed,             \* GLFW has processed events at least once
    ev_resize,                    \* a resize event GLFW has not processed yet
    fb_nonzero,                   \* the framebuffer has nonzero width and height
    rs_nonzero,                   \* locals width/height of recreate_swap_chain
    rs_ret,                       \* where recreate_swap_chain was called from
    result,                       \* local of draw_frame: the last VkResult
    image_index,                  \* local of draw_frame: the swapchain the
                                  \* acquired image belongs to (0: none)
    swap_chain,                   \* handle of the current swapchain (0: none)
    sc_objects,                   \* live objects derived from the swapchain
    device_lost,                  \* the device was lost
    snapshots,                    \* what successive create_swap_chain calls
                                  \* were given and what they built
    sc,                           \* the swapchain and the objects built from
                                  \* it, one by one, where they are tracked
    staging,                      \* create_shader_storage_buffers: its staging
                                  \* buffer and its loop index, where tracked
    sim,                          \* the simulation steps the storage buffers
                                  \* hold and the frames drawn, where tracked
    create_info,                  \* locals of create_swap_chain: the support
                                  \* queried and the configuration chosen
    in_flight_fences,
    compute_in_flight_fences,
    image_available_semaphores,
    render_finished_semaphores,
    compute_finished_semaphores,
    command_buffers,
    compute_command_buffers,
    ops,                          \* submissions and acquisitions pending on the device
    presents,                     \* presentation requests pending, in issue order
    unconfirmed                   \* submissions the host has not seen complete

vars == <<app, nframes, nparticles, pc, ds_i, compute_descriptor_sets, current_frame,
          framebuffer_resized, should_close, events_processed, close_flag,
          ev_resize,
          fb_nonzero,
          rs_nonzero, rs_ret, result, image_index, swap_chain, sc_objects,
          device_lost, snapshots, sc, staging, sim, create_info, in_flight_fences,
          compute_in_flight_fences, image_available_semaphores,
          render_finished_semaphores, compute_finished_semaphores,
          command_buffers, compute_command_buffers, ops, presents,
          unconfirmed>>

hostVars == <<pc, current_frame, framebuffer_resized, rs_nonzero, rs_ret,
              result, image_index>>
setupVars == <<app, nframes, nparticles, ds_i, compute_descriptor_sets>>
windowVars == <<should_close, events_processed, close_flag, ev_resize, fb_nonzero>>
chainVars == <<swap_chain, sc_objects>>
fenceVars == <<in_flight_fences, compute_in_flight_fences>>
semVars == <<image_available_semaphores, render_finished_semaphores,
             compute_finished_semaphores>>
cmdVars == <<command_buffers, compute_command_buffers>>
devVars == <<ops, presents, unconfirmed>>
detailVars == <<snapshots, sc, staging, sim>>

Apps == {"compute", "triangle"}
Slots == 0 .. (nframes - 1)
NoChain == 0
NotRecorded == [chain |-> NoChain, reads |-> {}, writes |-> {}, dispatch |-> <<>>]

\* VkResult values of vkAcquireNextImageKHR / vkQueuePresentKHR that the code
\* tells apart; "ERROR" stands for every other result.
VkResults == {"VK_SUCCESS", "VK_SUBOPTIMAL_KHR", "VK_ERROR_OUT_OF_DATE_KHR", "ERROR"}

\* ---------------------------------------------------------------- buffers
Ssbo(i) == <<"shader_storage_buffer", i>>
Ubo(i) == <<"uniform_buffer", i>>

RECURSIVE Pow2Mod(_, _)
\* 2^k modulo n, by repeated doubling (the values stay below 2 * n).
Pow2Mod(k, n) == IF k = 0 THEN 1 % n ELSE (2 * Pow2Mod(k - 1, n)) % n

\* (i - 1) % max_frames_in_flight with i a size_t: the int operand is converted
\* to size_t, so for i = 0 the dividend is 2^SizeBits - 1.
LastFrameIndex(i, n) ==
    IF i >= 1 THEN (i - 1) % n
              ELSE (Pow2Mod(SizeBits, n) + n - 1) % n

\* --------------------------------------------------------------- device ops
\* An element of `ops`:
\*   kind: "compute" | "graphics" | "acquire"
\*   phase: "queued" (waiting for its semaphores) | "running"
\*   chain: the swapchain whose images, views or framebuffers it uses
\*   reads, writes: the buffers its commands read and write
\*   needs_compute: (graphics) the compute submission of the same draw_frame
\*                  call has not completed yet
Op(kind, slot, phase, chain, reads, writes, needs) ==
    [kind |-> kind, slot |-> slot, phase |-> phase, chain |-> chain,
     reads |-> reads, writes |-> writes, needs_compute |-> needs]

\* An element of `presents`: image `image` (by the swapchain it was acquired
\* from) is to be presented to the swapchain `chain`.
PresentOp(slot, chain, image) ==
    [kind |-> "present", slot |-> slot, phase |-> "queued", chain |-> chain,
     image |-> image]

OpsOf(kind) == {o \in ops : o.kind = kind}
SubmitKinds == {"compute", "graphics"}

\* `unconfirmed` maps a kind and a slot to the number of submissions of that
\* kind with that slot's fence that the host has not seen complete.
NoneUnconfirmed == [k \in SubmitKinds |-> [i \in Slots |-> 0]]

\* The device queue that receives the submissions of `kind`: family and index
\* passed to vkGetDeviceQueue in create_logical_device.
QueueOf(kind) ==
    IF app = "compute" THEN <<"graphics_and_compute_family", 0>>
    ELSE IF kind = "graphics" THEN <<"graphics_family", 0>>
    ELSE <<"none", 0>>

Queues == {QueueOf(k) : k \in SubmitKinds}

RECURSIVE SumOver(_, _)
SumOver(f, S) ==
    IF S = {} THEN 0
    ELSE LET x == CHOOSE y \in S : TRUE IN f[x] + SumOver(f, S \ {x})

UnconfirmedOfKind(kind) == SumOver(unconfirmed[kind], Slots)

UnconfirmedOn(queue) ==
    SumOver([k \in SubmitKinds |-> UnconfirmedOfKind(k)],
            {k \in SubmitKinds : QueueOf(k) = queue})

\* Semaphores an operation waits for before it runs, and those it signals.
WaitsOf(o) ==
    CASE o.kind = "graphics" ->
            IF app = "compute"
            THEN {<<"compute_finished", o.slot>>, <<"image_available", o.slot>>}
            ELSE {<<"image_available", o.slot>>}
      [] o.kind = "present" -> {<<"render_finished", o.slot>>}
      [] OTHER -> {}

SignalsOf(o) ==
    CASE o.kind = "compute" -> {<<"compute_finished", o.slot>>}
      [] o.kind = "graphics" -> {<<"render_finished", o.slot>>}
      [] o.kind = "acquire" -> {<<"image_available", o.slot>>}
      [] OTHER -> {}

Signalled(s) ==
    CASE s[1] = "compute_finished" -> compute_finished_semaphores[s[2]]
      [] s[1] = "image_available" -> image_available_semaphores[s[2]]
      [] s[1] = "render_finished" -> render_finished_semaphores[s[2]]

\* The three semaphore arrays after the semaphores of `down` are consumed and
\* those of `up` are signalled.
SemUpdate(arr, name, down, up) ==
    [i \in DOMAIN arr |->
        IF <<name, i>> \in up THEN TRUE
        ELSE IF <<name, i>> \in down THEN FALSE
        ELSE arr[i]]

SetSemaphores(down, up) ==
    /\ compute_finished_semaphores' =
           SemUpdate(compute_finished_semaphores, "compute_finished", down, up)
    /\ image_available_semaphores' =
           SemUpdate(image_available_semaphores, "image_available", down, up)
    /\ render_finished_semaphores' =
           SemUpdate(render_finished_semaphores, "render_finished", down, up)

\* Surface formats (format and colour space) and present modes a surface
\* may report; "indeterminate" is a value read from no element.
PreferredFormat == "VK_FORMAT_B8G8R8A8_SRGB"
FormatValues == {PreferredFormat, "VK_FORMAT_R8G8B8A8_UNORM"}
PresentModes == {"VK_PRESENT_MODE_MAILBOX_KHR", "VK_PRESENT_MODE_FIFO_KHR"}
SurfaceFormats == UNION {[1 .. n -> FormatValues] : n \in 0 .. MaxFormats}
\* The members that hold the swapchain and what is built from it, before
\* init_vulkan: no handle, empty vectors.
NoStaging == [staging_buffer |-> "none", i |-> 0]
NoSim == [tracked |-> FALSE]
NoObject == [live |-> FALSE]
NoObjects ==
    [swap_chain_images |-> <<>>, swap_chain_image_format |-> "none",
     swap_chain_extent |-> <<0, 0>>, swap_chain_image_views |-> <<>>,
     swap_chain_framebuffers |-> <<>>, color_image_view |-> NoObject,
     depth_image_view |-> NoObject, render_pass |-> "none"]

NoInfo == [formats |-> <<>>, present_modes |-> {},
           imageFormat |-> "none", presentMode |-> "none"]

\* choose_swap_surface_format: the preferred format if it is available, else
\* available_formats[0], which is read out of bounds when the vector is
\* empty: the read crashes or yields any value.
choose_swap_surface_format(available_formats) ==
    IF \E i \in DOMAIN available_formats : available_formats[i] = PreferredFormat
    THEN {PreferredFormat}
    ELSE IF available_formats # <<>>
         THEN {available_formats[1]}
         ELSE FormatValues \cup {"indeterminate", "crash"}

\* choose_swap_present_mode: mailbox if it is available, else FIFO.
choose_swap_present_mode(available_present_modes) ==
    IF "VK_PRESENT_MODE_MAILBOX_KHR" \in available_present_modes
    THEN "VK_PRESENT_MODE_MAILBOX_KHR"
    ELSE "VK_PRESENT_MODE_FIFO_KHR"

\* Extents (width, height); currentExtent with width UINT32_MAX, written -1
\* here, stands for "the surface size is determined by the swapchain".
ExtentValues == (1 .. MaxExtent) \X (1 .. MaxExtent)
UndefinedExtent == <<-1, -1>>

\* std::clamp(v, lo, hi).
Clamp(v, lo, hi) == IF v < lo THEN lo ELSE IF hi < v THEN hi ELSE v

\* choose_swap_extent: currentExtent unless it is undefined, else the
\* framebuffer size clamped to the extents the surface allows.
choose_swap_extent(capabilities, framebuffer) ==
    IF capabilities.currentExtent[1] # UndefinedExtent[1]
    THEN capabilities.currentExtent
    ELSE <<Clamp(framebuffer[1], capabilities.minImageExtent[1],
                 capabilities.maxImageExtent[1]),
           Clamp(framebuffer[2], capabilities.minImageExtent[2],
                 capabilities.maxImageExtent[2])>>

\* image_count of create_swap_chain: minImageCount + 1, capped by
\* maxImageCount when that is not 0.
ImageCountOf(capabilities) ==
    IF capabilities.maxImageCount > 0
       /\ capabilities.minImageCount + 1 > capabilities.maxImageCount
    THEN capabilities.maxImageCount
    ELSE capabilities.minImageCount + 1

\* What the surface and the window report to create_swap_chain.
SurfaceCapabilities ==
    {c \in [minImageCount : 1 .. MaxImages, maxImageCount : 0 .. MaxImages,
            currentExtent : ExtentValues \cup {UndefinedExtent},
            minImageExtent : {<<1, 1>>}, maxImageExtent : ExtentValues] :
        c.maxImageCount = 0 \/ c.maxImageCount >= c.minImageCount}
SwapChainInputs ==
    [capabilities : SurfaceCapabilities, formats : SurfaceFormats,
     present_modes : SUBSET PresentModes, framebuffer : ExtentValues]

\* ------------------------------------------------------------------- Init
InitCommon ==
    /\ pc = "init_vulkan"
    /\ ds_i = 0
    /\ compute_descriptor_sets = <<>>
    /\ current_frame = 0
    /\ framebuffer_resized = FALSE
    /\ should_close = FALSE
    /\ close_flag = FALSE
    /\ events_processed = FALSE
    /\ ev_resize = FALSE
    /\ fb_nonzero = TRUE
    /\ rs_nonzero = FALSE
    /\ rs_ret = "none"
    /\ result = "none"
    /\ image_index = NoChain
    /\ swap_chain = NoChain
    /\ sc_objects = {}
    /\ create_info = NoInfo
    /\ device_lost = FALSE
    /\ snapshots = <<>>
    /\ sc = NoObjects
    /\ staging = NoStaging
    /\ in_flight_fences = <<>>
    /\ compute_in_flight_fences = <<>>
    /\ image_available_semaphores = <<>>
    /\ render_finished_semaphores = <<>>
    /\ compute_finished_semaphores = <<>>
    /\ command_buffers = <<>>
    /\ compute_command_buffers = <<>>
    /\ ops = {}
    /\ presents = <<>>
    /\ unconfirmed = NoneUnconfirmed

Init ==
    /\ app \in Apps
    /\ nframes = max_frames_in_flight
    /\ nparticles = particle_count
    /\ sim = NoSim
    /\ InitCommon

\* --------------------------------------------------------------- set-up
\* Objects derived from the swapchain, destroyed by cleanup_swap_chain.
ChainObjects ==
    IF app = "compute"
    THEN {"swapchain", "image_views", "framebuffers"}
    ELSE {"swapchain", "image_views", "framebuffers", "color", "depth"}

\* init_vulkan up to the creation of the descriptor pool. Any creation call
\* may fail, which throws.
InitVulkan ==
    /\ pc = "init_vulkan"
    /\ \E ok \in BOOLEAN :
         IF ok
         THEN /\ swap_chain' = 1
              /\ sc_objects' = ChainObjects
              /\ pc' = IF app = "compute" THEN "create_compute_descriptor_sets"
                                           ELSE "create_sync_objects"
         ELSE /\ pc' = "fatal"
              /\ UNCHANGED chainVars
    /\ UNCHANGED <<current_frame, framebuffer_resized, rs_nonzero, rs_ret, result, image_index,
                   setupVars, detailVars, device_lost, create_info, windowVars, fenceVars, semVars, cmdVars, devVars>>

\* One iteration of the loop of create_compute_descriptor_sets, or its exit.
CreateComputeDescriptorSets ==
    /\ pc = "create_compute_descriptor_sets"
    /\ IF ds_i < nframes
       THEN /\ compute_descriptor_sets' = compute_descriptor_sets @@
                  (ds_i :> [uniform |-> Ubo(ds_i),
                            last_frame |-> Ssbo(LastFrameIndex(ds_i, nframes)),
                            current_frame |-> Ssbo(ds_i)])
            /\ ds_i' = ds_i + 1
            /\ pc' = pc
       ELSE /\ pc' = "create_sync_objects"
            /\ UNCHANGED <<ds_i, compute_descriptor_sets>>
    /\ UNCHANGED <<app, nframes, nparticles, device_lost, detailVars, create_info,
                   current_frame,
                   framebuffer_resized, rs_nonzero,
                   rs_ret, result, image_index, windowVars, chainVars, fenceVars, semVars, cmdVars,
                   devVars>>

\* Fences created without VK_FENCE_CREATE_SIGNALED_BIT.
CreatedUnsignalled == FALSE

\* create_command_buffers, create_compute_command_buffers, create_sync_objects.
CreatedSignalled == TRUE

CreateSyncObjects ==
    /\ pc = "create_sync_objects"
    /\ command_buffers' = [i \in Slots |-> NotRecorded]
    /\ compute_command_buffers' =
           IF app = "compute" THEN [i \in Slots |-> NotRecorded] ELSE <<>>
    /\ image_available_semaphores' = [i \in Slots |-> FALSE]
    /\ render_finished_semaphores' = [i \in Slots |-> FALSE]
    /\ in_flight_fences' = [i \in Slots |-> CreatedSignalled]
    /\ compute_finished_semaphores' =
           IF app = "compute" THEN [i \in Slots |-> FALSE] ELSE <<>>
    /\ compute_in_flight_fences' =
           IF app = "compute" THEN [i \in Slots |-> CreatedSignalled] ELSE <<>>
    /\ pc' = "main_loop"
    /\ UNCHANGED <<current_frame, framebuffer_resized, rs_nonzero, rs_ret, result, image_index,
                   setupVars, detailVars, device_lost, create_info, windowVars, chainVars, devVars>>

\* ------------------------------------------------------------ the window
\* The host sees the window only where it reads the framebuffer size
\* (recreate_swap_chain, create_swap_chain) and where GLFW processes events
\* (glfwPollEvents, glfwWaitEvents). A resize is therefore taken to arrive
\* just before one of these points; one that arrives while glfwWaitEvents
\* blocks is part of RS_Loop.
ResizePoints == {"main_loop", "cs_presented", "ta_presented", "rs_create"}

\* The user resizes (or minimises, or restores) the window: the size changes
\* at once, the callback runs when GLFW next processes events.
WindowResize ==
    /\ pc \in ResizePoints
    /\ \E nz \in BOOLEAN :
         /\ nz # fb_nonzero \/ ~ev_resize
         /\ fb_nonzero' = nz
    /\ ev_resize' = TRUE
    /\ UNCHANGED <<hostVars, setupVars, detailVars, device_lost, create_info, should_close, close_flag, events_processed,
                   chainVars, fenceVars, semVars, cmdVars, devVars>>

\* Events GLFW finds when it processes events, besides a pending resize:
\* something else (input, focus, a close request), nothing.
WindowEvents == {"other", "none"}

\* glfwPollEvents / glfwWaitEvents: pending events run their callbacks
\* (framebuffer_resize_callback sets framebuffer_resized).
framebuffer_resize_callback == TRUE

ProcessEvents(ev, resize) ==
    /\ framebuffer_resized' =
           IF resize THEN framebuffer_resize_callback ELSE framebuffer_resized
    /\ events_processed' = TRUE
    /\ ev_resize' = FALSE

\* ------------------------------------------------------------- main_loop
DrawFrameEntry == IF app = "compute" THEN "cs_wait_compute_fence" ELSE "ta_wait_fence"

\* glfwWindowShouldClose(window): GLFW sets the close flag while it
\* processes events and only the test of the while loop reads it, so whether
\* a close request was processed since the last test is drawn at the test;
\* there is none before events were processed for the first time.
WindowShouldClose(close) ==
    /\ close => events_processed
    /\ close_flag => close

\* while (!glfwWindowShouldClose(window)) { glfwPollEvents(); draw_frame(); ... }
MainLoop ==
    /\ pc = "main_loop"
    /\ \E close \in BOOLEAN :
         /\ WindowShouldClose(close)
         /\ IF close
            THEN /\ should_close' = TRUE
                 /\ pc' = "device_wait_idle"
                 /\ UNCHANGED <<framebuffer_resized, events_processed, ev_resize>>
            ELSE /\ \E ev \in WindowEvents : ProcessEvents(ev, ev_resize)
                 /\ pc' = DrawFrameEntry
                 /\ UNCHANGED should_close
    /\ UNCHANGED <<fb_nonzero, close_flag, devVars>>
    /\ UNCHANGED <<current_frame, rs_nonzero, rs_ret, result, image_index, setupVars, detailVars, device_lost, create_info,
                   chainVars, fenceVars, semVars, cmdVars>>

\* A vkDeviceWaitIdle that returns at once.
NoDrain == TRUE

\* vkDeviceWaitIdle(logical_device): returns once every queue is idle.
DeviceIdle == OpsOf("compute") = {} /\ OpsOf("graphics") = {} /\ presents = <<>>

\* vkDeviceWaitIdle returns once the device is idle, or with
\* VK_ERROR_DEVICE_LOST once the device is lost; no caller looks at the value
\* returned.
DeviceWaitIdle == DeviceIdle \/ device_lost

\* main_loop without the vkDeviceWaitIdle after the loop.
SkipWaitIdle ==
    /\ pc = "device_wait_idle"
    /\ pc' = "cleanup"
    /\ UNCHANGED <<current_frame, framebuffer_resized, rs_nonzero, rs_ret, result, image_index,
                   setupVars, detailVars, device_lost, create_info, windowVars, chainVars, fenceVars, semVars,
                   cmdVars, devVars>>

\* vkDeviceWaitIdle(logical_device) after the loop.
MainLoopWaitIdle ==
    /\ pc = "device_wait_idle"
    /\ DeviceWaitIdle
    /\ unconfirmed' = NoneUnconfirmed
    /\ pc' = "cleanup"
    /\ UNCHANGED <<current_frame, framebuffer_resized, rs_nonzero, rs_ret, result, image_index,
                   setupVars, detailVars, device_lost, create_info, windowVars, chainVars, fenceVars, semVars,
                   cmdVars, ops, presents>>

\* cleanup: every device object is destroyed, the window too.
Cleanup ==
    /\ pc = "cleanup"
    /\ sc_objects' = {}
    /\ swap_chain' = NoChain
    /\ in_flight_fences' = <<>>
    /\ compute_in_flight_fences' = <<>>
    /\ image_available_semaphores' = <<>>
    /\ render_finished_semaphores' = <<>>
    /\ compute_finished_semaphores' = <<>>
    /\ command_buffers' = <<>>
    /\ compute_command_buffers' = <<>>
    /\ pc' = "done"
    /\ UNCHANGED <<current_frame, framebuffer_resized, rs_nonzero, rs_ret, result, image_index,
                   setupVars, detailVars, device_lost, create_info, windowVars, devVars>>

\* ------------------------------------------------------------ the device
\* A queued submission starts once all the semaphores it waits for are
\* signalled; the wait unsignals them.
OpBegin(o) ==
    /\ pc \notin {"fatal", "done"}
    /\ ~device_lost
    /\ o \in ops
    /\ o.phase = "queued"
    /\ \A s \in WaitsOf(o) : Signalled(s)
    /\ ops' = (ops \ {o}) \cup {[o EXCEPT !.phase = "running"]}
    /\ SetSemaphores(WaitsOf(o), {})
    /\ UNCHANGED <<hostVars, setupVars, detailVars, device_lost, create_info, windowVars, chainVars, fenceVars,
                   cmdVars, presents, unconfirmed>>

\* The pending operations once `o` has completed: a completed compute
\* submission is no longer awaited by the draw of its draw_frame call.
Completed(o) ==
    {IF o.kind = "compute" /\ p.kind = "graphics" /\ p.slot = o.slot
     THEN [p EXCEPT !.needs_compute = FALSE] ELSE p : p \in ops \ {o}}

\* The storage buffer among `buffers` (the one a command buffer reads from or
\* writes to), by its index.
SsboIn(buffers) == (CHOOSE b \in buffers : b[1] = "shader_storage_buffer")[2]

\* The number of simulation steps behind the content of each storage buffer
\* once `o` has completed: the compute shader writes to its output buffer
\* the particles of its input buffer moved by one step.
SimComplete(o) ==
    IF sim.tracked /\ o.kind = "compute"
    THEN [sim EXCEPT !.steps[SsboIn(o.writes)] = sim.steps[SsboIn(o.reads)] + 1]
    ELSE sim

\* The draw submitted now is the one of the next frame to be presented.
SimDraw ==
    IF sim.tracked
    THEN [sim EXCEPT !.frame_of[current_frame] = sim.presented + 1]
    ELSE sim

\* One more frame was handed to the presentation engine.
SimPresent(r) ==
    IF sim.tracked /\ r # "ERROR"
    THEN [sim EXCEPT !.presented = @ + 1]
    ELSE sim

\* The draw that an earlier draw_frame call submitted with the slot of `o` is
\* still pending (the draw of the same call is the one that awaits `o`).
EarlierDrawPending(o) ==
    \E p \in OpsOf("graphics") : p.slot = o.slot /\ ~p.needs_compute

\* A running operation completes: it signals its semaphores and its fence.
\* Both applications submit to one queue, and the signal of a submission
\* follows the commands submitted to the queue before it: a compute
\* submission does not signal compute_finished while the draw that waits for
\* the slot's earlier signal is pending.
OpComplete(o) ==
    /\ pc \notin {"fatal", "done"}
    /\ ~device_lost
    /\ o \in ops
    /\ o.phase = "running"
    /\ o.kind = "compute" => ~EarlierDrawPending(o)
    /\ ops' = Completed(o)
    /\ sim' = SimComplete(o)
    /\ SetSemaphores({}, SignalsOf(o))
    /\ in_flight_fences' =
           IF o.kind = "graphics"
           THEN [in_flight_fences EXCEPT ![o.slot] = TRUE]
           ELSE in_flight_fences
    /\ compute_in_flight_fences' =
           IF o.kind = "compute"
           THEN [compute_in_flight_fences EXCEPT ![o.slot] = TRUE]
           ELSE compute_in_flight_fences
    /\ UNCHANGED <<hostVars, setupVars, snapshots, sc, staging, device_lost, create_info, windowVars, chainVars, cmdVars,
                   presents, unconfirmed>>

\* Presentation requests are processed in issue order: the oldest one starts
\* once its semaphore is signalled, and completes.
PresentBegin ==
    /\ pc \notin {"fatal", "done"}
    /\ ~device_lost
    /\ presents # <<>>
    /\ Head(presents).phase = "queued"
    /\ \A s \in WaitsOf(Head(presents)) : Signalled(s)
    /\ presents' = [presents EXCEPT ![1].phase = "running"]
    /\ SetSemaphores(WaitsOf(Head(presents)), {})
    /\ UNCHANGED <<hostVars, setupVars, detailVars, device_lost, create_info, windowVars, chainVars, fenceVars,
                   cmdVars, ops, unconfirmed>>

PresentComplete ==
    /\ pc \notin {"fatal", "done"}
    /\ ~device_lost
    /\ presents # <<>>
    /\ Head(presents).phase = "running"
    /\ presents' = Tail(presents)
    /\ UNCHANGED <<hostVars, setupVars, detailVars, device_lost, create_info, windowVars, chainVars, fenceVars,
                   semVars, cmdVars, ops, unconfirmed>>

\* ------------------------------------------------- host-side primitives
\* A vkWaitForFences that returns without waiting.
NoWait(fence) == TRUE

\* vkWaitForFences(..., UINT64_MAX) returns once the fence is signalled, or
\* with VK_ERROR_DEVICE_LOST once the device is lost; draw_frame does not look
\* at the value returned.
WaitForFences(fence) == fence \/ device_lost

\* A fence wait that confirms nothing.
NoConfirm(kind, slot) == unconfirmed

\* The host has seen the submissions of `kind` on `slot` complete.
Confirm(kind, slot) == [unconfirmed EXCEPT ![kind][slot] = 0]

\* One more submission of `kind` on `slot` is in flight.
Submitted(kind, slot) == [unconfirmed EXCEPT ![kind][slot] = @ + 1]

\* An image can be acquired while not every image of the chain is queued for
\* presentation; with the timeout UINT64_MAX the call blocks otherwise.
ImageAvailable == Len(presents) < ImageCount

\* A recreate_swap_chain without the while loop.
RecreateEntryNoLoop == "rs_wait_idle"

\* Entry of recreate_swap_chain: the first glfwGetFramebufferSize and the
\* first test of the while loop.
RecreateEntry == IF fb_nonzero THEN "rs_wait_idle" ELSE "rs_loop"

AdvancePc == IF app = "compute" THEN "cs_advance" ELSE "ta_advance"

\* A present branch that does not look at framebuffer_resized.
PresentBranchNoFlag(r) ==
    IF r = "VK_ERROR_OUT_OF_DATE_KHR" \/ r = "VK_SUBOPTIMAL_KHR"
    THEN "recreate"
    ELSE IF r # "VK_SUCCESS" THEN "throw" ELSE "advance"

\* A present branch that takes a suboptimal result for an error.
PresentBranchStrict(r) ==
    IF r = "VK_ERROR_OUT_OF_DATE_KHR" \/ framebuffer_resized
    THEN "recreate"
    ELSE IF r # "VK_SUCCESS" THEN "throw" ELSE "advance"

\* The branch draw_frame takes on the result of vkQueuePresentKHR.
PresentBranch(r) ==
    IF r = "VK_ERROR_OUT_OF_DATE_KHR" \/ r = "VK_SUBOPTIMAL_KHR"
       \/ framebuffer_resized
    THEN "recreate"
    ELSE IF r # "VK_SUCCESS" THEN "throw" ELSE "advance"

\* An acquire branch that goes on with the frame after an out-of-date result.
AcquireBranchIgnore(r) ==
    IF r # "VK_SUCCESS" /\ r # "VK_SUBOPTIMAL_KHR" /\ r # "VK_ERROR_OUT_OF_DATE_KHR"
    THEN "throw" ELSE "draw"

\* An acquire branch that takes a suboptimal result for an error.
AcquireBranchSuccessOnly(r) ==
    IF r = "VK_ERROR_OUT_OF_DATE_KHR"
    THEN "recreate"
    ELSE IF r # "VK_SUCCESS" THEN "throw" ELSE "draw"

\* An acquire branch without the out-of-date case.
AcquireBranchThrow(r) ==
    IF r # "VK_SUCCESS" /\ r # "VK_SUBOPTIMAL_KHR" THEN "throw" ELSE "draw"

\* The branch draw_frame takes on the result of vkAcquireNextImageKHR.
AcquireBranch(r) ==
    IF r = "VK_ERROR_OUT_OF_DATE_KHR"
    THEN "recreate"
    ELSE IF r # "VK_SUCCESS" /\ r # "VK_SUBOPTIMAL_KHR"
         THEN "throw" ELSE "draw"

\* result = vkAcquireNextImageKHR(..., image_available_semaphores[current_frame],
\* VK_NULL_HANDLE, &image_index): on success (or suboptimal) the semaphore is
\* signalled once the image can be used.
AcquireNextImage(next) ==
    \E r \in VkResults :
       /\ r \in {"VK_SUCCESS", "VK_SUBOPTIMAL_KHR"} => ImageAvailable
       /\ result' = r
       /\ image_index' = IF r \in {"VK_SUCCESS", "VK_SUBOPTIMAL_KHR"}
                         THEN swap_chain ELSE NoChain
       /\ ops' = IF r \in {"VK_SUCCESS", "VK_SUBOPTIMAL_KHR"}
                 THEN ops \cup {Op("acquire", current_frame, "running",
                                   swap_chain, {}, {}, FALSE)}
                 ELSE ops
       /\ pc' = next

\* The if / else if after vkAcquireNextImageKHR: recreate_swap_chain() and
\* return, throw, or go on with the frame.
AcquireResult(next) ==
    /\ result' = "none"
    /\ CASE AcquireBranch(result) = "recreate" ->
              /\ rs_nonzero' = fb_nonzero
              /\ rs_ret' = "return"
              /\ pc' = RecreateEntry
         [] AcquireBranch(result) = "throw" ->
              /\ pc' = "fatal"
              /\ UNCHANGED <<rs_nonzero, rs_ret>>
         [] OTHER ->
              /\ pc' = next
              /\ UNCHANGED <<rs_nonzero, rs_ret>>

\* result = vkQueuePresentKHR(present_queue, &present_info). The present is
\* queued whenever the call reports success, suboptimal or out-of-date: its
\* semaphore wait is executed in all three cases.
QueuePresent(next) ==
    \E r \in VkResults :
       /\ result' = r
       /\ presents' = IF r = "ERROR" THEN presents
                      ELSE Append(presents, PresentOp(current_frame, swap_chain,
                                                 image_index))
       /\ sim' = SimPresent(r)
       /\ pc' = next

\* The if / else if after vkQueuePresentKHR.
PresentResult ==
    /\ result' = "none"
    /\ CASE PresentBranch(result) = "recreate" ->
              /\ framebuffer_resized' = FALSE
              /\ rs_nonzero' = fb_nonzero
              /\ rs_ret' = "advance"
              /\ pc' = RecreateEntry
         [] PresentBranch(result) = "throw" ->
              /\ pc' = "fatal"
              /\ UNCHANGED <<framebuffer_resized, rs_nonzero, rs_ret>>
         [] OTHER ->
              /\ pc' = AdvancePc
              /\ UNCHANGED <<framebuffer_resized, rs_nonzero, rs_ret>>

\* ------------------------------------ ComputeShaderApplication::draw_frame
CS_WaitComputeFence ==
    /\ pc = "cs_wait_compute_fence"
    /\ WaitForFences(compute_in_flight_fences[current_frame])
    /\ unconfirmed' = Confirm("compute", current_frame)
    /\ pc' = "cs_update_uniform"
    /\ UNCHANGED <<current_frame, framebuffer_resized, rs_nonzero, rs_ret, result, image_index,
                   setupVars, detailVars, device_lost, create_info, windowVars, chainVars, fenceVars, semVars,
                   cmdVars, ops, presents>>

\* update_uniform_buffer(current_frame); vkResetFences(compute fence).
CS_UpdateUniform ==
    /\ pc = "cs_update_uniform"
    /\ compute_in_flight_fences' =
           [compute_in_flight_fences EXCEPT ![current_frame] = FALSE]
    /\ pc' = "cs_record_compute"
    /\ UNCHANGED <<current_frame, framebuffer_resized, rs_nonzero, rs_ret, result, image_index,
                   setupVars, detailVars, device_lost, create_info, windowVars, chainVars, in_flight_fences, semVars,
                   cmdVars, devVars>>

\* One group per particle.
GroupPerParticle(p) == <<p, 1, 1>>

\* The group counts of vkCmdDispatch(command_buffer, particle_count / 256, 1, 1).
DispatchGroups(p) == <<p \div GroupSize, 1, 1>>

\* What record_compute_command_buffer records: a dispatch over the bindings
\* of compute_descriptor_sets[current_frame].
ComputeCommands ==
    LET ds == compute_descriptor_sets[current_frame]
    IN  [chain |-> NoChain,
         reads |-> {ds.uniform, ds.last_frame},
         writes |-> {ds.current_frame},
         dispatch |-> DispatchGroups(nparticles)]

\* vkResetCommandBuffer + record_compute_command_buffer.
CS_RecordCompute ==
    /\ pc = "cs_record_compute"
    /\ \E ok \in BOOLEAN :
         IF ok
         THEN /\ compute_command_buffers' =
                     [compute_command_buffers EXCEPT ![current_frame] = ComputeCommands]
              /\ pc' = "cs_submit_compute"
         ELSE /\ pc' = "fatal"
              /\ UNCHANGED compute_command_buffers
    /\ UNCHANGED <<current_frame, framebuffer_resized, rs_nonzero, rs_ret, result, image_index,
                   setupVars, detailVars, device_lost, create_info, windowVars, chainVars, fenceVars, semVars,
                   command_buffers, devVars>>

\* A vkQueueSubmit that does not return.
QueueSubmitHangs == {}

\* Whether vkQueueSubmit returns VK_SUCCESS: a lost device takes no
\* submission (VK_ERROR_DEVICE_LOST).
QueueSubmitOk == IF device_lost THEN {FALSE} ELSE BOOLEAN

\* vkQueueSubmit(compute_queue, ..., compute_in_flight_fences[current_frame]):
\* no wait semaphore, so the work may run at once.
CS_SubmitCompute ==
    /\ pc = "cs_submit_compute"
    /\ \E ok \in QueueSubmitOk :
         IF ok
         THEN LET cb == compute_command_buffers[current_frame]
              IN  /\ ops' = ops \cup {Op("compute", current_frame, "running",
                                         cb.chain, cb.reads, cb.writes, FALSE)}
                  /\ unconfirmed' = Submitted("compute", current_frame)
                  /\ pc' = "cs_wait_fence"
         ELSE /\ pc' = "fatal"
              /\ UNCHANGED <<ops, unconfirmed>>
    /\ UNCHANGED <<presents, current_frame, framebuffer_resized, rs_nonzero, rs_ret,
                   result, image_index,
                   setupVars, detailVars, device_lost, create_info, windowVars, chainVars, fenceVars, semVars, cmdVars>>

\* A draw_frame that also waits for this iteration's compute fence before
\* the graphics stage.
CS_WaitBothFences ==
    /\ pc = "cs_wait_fence"
    /\ WaitForFences(in_flight_fences[current_frame])
    /\ WaitForFences(compute_in_flight_fences[current_frame])
    /\ unconfirmed' = [Confirm("graphics", current_frame) EXCEPT
                          !["compute"][current_frame] = 0]
    /\ pc' = "cs_acquire"
    /\ UNCHANGED <<current_frame, framebuffer_resized, rs_nonzero, rs_ret, result,
                   image_index, setupVars, detailVars, device_lost, create_info, windowVars,
                   chainVars, fenceVars, semVars, cmdVars, ops, presents>>

CS_WaitFence ==
    /\ pc = "cs_wait_fence"
    /\ WaitForFences(in_flight_fences[current_frame])
    /\ unconfirmed' = Confirm("graphics", current_frame)
    /\ pc' = "cs_acquire"
    /\ UNCHANGED <<current_frame, framebuffer_resized, rs_nonzero, rs_ret, result, image_index,
                   setupVars, detailVars, device_lost, create_info, windowVars, chainVars, fenceVars, semVars,
                   cmdVars, ops, presents>>

CS_Acquire ==
    /\ pc = "cs_acquire"
    /\ AcquireNextImage("cs_acquired")
    /\ UNCHANGED <<current_frame, framebuffer_resized, rs_nonzero, rs_ret,
                   setupVars, detailVars, device_lost, create_info, windowVars, chainVars, fenceVars, semVars,
                   cmdVars, presents, unconfirmed>>

CS_Acquired ==
    /\ pc = "cs_acquired"
    /\ AcquireResult("cs_reset_fence")
    /\ UNCHANGED <<current_frame, framebuffer_resized, image_index, setupVars, detailVars, device_lost, create_info,
                   windowVars, chainVars, fenceVars, semVars, cmdVars, devVars>>

CS_ResetFence ==
    /\ pc = "cs_reset_fence"
    /\ in_flight_fences' = [in_flight_fences EXCEPT ![current_frame] = FALSE]
    /\ pc' = "cs_record"
    /\ UNCHANGED <<current_frame, framebuffer_resized, rs_nonzero, rs_ret, result, image_index,
                   setupVars, detailVars, device_lost, create_info, windowVars, chainVars, compute_in_flight_fences,
                   semVars, cmdVars, devVars>>

\* A draw with the buffer the compute commands read as vertices.
DrawLastFrame ==
    [chain |-> swap_chain,
     reads |-> {compute_descriptor_sets[current_frame].last_frame},
     writes |-> {}, dispatch |-> <<>>]

\* What record_command_buffer records: a draw into a framebuffer of the
\* current swapchain with shader_storage_buffers[current_frame] as vertices.
GraphicsCommands ==
    [chain |-> swap_chain, reads |-> {Ssbo(current_frame)}, writes |-> {},
     dispatch |-> <<>>]

\* vkResetCommandBuffer + record_command_buffer.
CS_Record ==
    /\ pc = "cs_record"
    /\ \E ok \in BOOLEAN :
         IF ok
         THEN /\ command_buffers' =
                     [command_buffers EXCEPT ![current_frame] = GraphicsCommands]
              /\ pc' = "cs_submit"
         ELSE /\ pc' = "fatal"
              /\ UNCHANGED command_buffers
    /\ UNCHANGED <<current_frame, framebuffer_resized, rs_nonzero, rs_ret, result, image_index,
                   setupVars, detailVars, device_lost, create_info, windowVars, chainVars, fenceVars, semVars,
                   compute_command_buffers, devVars>>

\* A vkQueueSubmit that returns success and queues nothing.
SubmitDropped(next) ==
    /\ pc' = next
    /\ UNCHANGED <<ops, unconfirmed, sim>>

\* The compute submission of this draw_frame call is still pending.
ComputePending == \E c \in OpsOf("compute") : c.slot = current_frame

\* vkQueueSubmit(graphics_queue, ..., in_flight_fences[current_frame]) waiting
\* for compute_finished and image_available, signalling render_finished.
SubmitGraphics(next) ==
    \E ok \in QueueSubmitOk :
       IF ok
       THEN LET cb == command_buffers[current_frame]
            IN  /\ sim.tracked => sim.presented < MaxSimFrames
                /\ ops' = ops \cup {Op("graphics", current_frame, "queued",
                                       cb.chain, cb.reads, cb.writes,
                                       ComputePending)}
                /\ unconfirmed' = Submitted("graphics", current_frame)
                /\ sim' = SimDraw
                /\ pc' = next
       ELSE /\ pc' = "fatal"
            /\ UNCHANGED <<ops, unconfirmed, sim>>

CS_Submit ==
    /\ pc = "cs_submit"
    /\ SubmitGraphics("cs_present")
    /\ UNCHANGED <<presents, current_frame, framebuffer_resized, rs_nonzero, rs_ret,
                   result, image_index,
                   setupVars, snapshots, sc, staging, device_lost, create_info, windowVars, chainVars, fenceVars, semVars, cmdVars>>

CS_Present ==
    /\ pc = "cs_present"
    /\ QueuePresent("cs_presented")
    /\ UNCHANGED <<current_frame, framebuffer_resized, rs_nonzero, rs_ret,
                   image_index,
                   setupVars, snapshots, sc, staging, device_lost, create_info, windowVars, chainVars, fenceVars, semVars,
                   cmdVars, ops, unconfirmed>>

CS_Presented ==
    /\ pc = "cs_presented"
    /\ PresentResult
    /\ UNCHANGED <<current_frame, image_index, setupVars, detailVars, device_lost, create_info, windowVars, chainVars,
                   fenceVars, semVars, cmdVars, devVars>>

\* current_frame = (current_frame + 1) % max_frames_in_flight; return.
\* A frame loop that never leaves its slot.
SameFrame == current_frame

NextFrame == (current_frame + 1) % nframes

CS_Advance ==
    /\ pc = "cs_advance"
    /\ current_frame' = NextFrame
    /\ image_index' = NoChain
    /\ pc' = "main_loop"
    /\ UNCHANGED <<framebuffer_resized, rs_nonzero, rs_ret, result, setupVars, detailVars, device_lost, create_info,
                   windowVars, chainVars, fenceVars, semVars, cmdVars, devVars>>

\* --------------------------------------- TriangleApplication::draw_frame
TA_WaitFence ==
    /\ pc = "ta_wait_fence"
    /\ WaitForFences(in_flight_fences[current_frame])
    /\ unconfirmed' = Confirm("graphics", current_frame)
    /\ pc' = "ta_acquire"
    /\ UNCHANGED <<current_frame, framebuffer_resized, rs_nonzero, rs_ret, result, image_index,
                   setupVars, detailVars, device_lost, create_info, windowVars, chainVars, fenceVars, semVars,
                   cmdVars, ops, presents>>

TA_Acquire ==
    /\ pc = "ta_acquire"
    /\ AcquireNextImage("ta_acquired")
    /\ UNCHANGED <<current_frame, framebuffer_resized, rs_nonzero, rs_ret,
                   setupVars, detailVars, device_lost, create_info, windowVars, chainVars, fenceVars, semVars,
                   cmdVars, presents, unconfirmed>>

TA_Acquired ==
    /\ pc = "ta_acquired"
    /\ AcquireResult("ta_update_uniform")
    /\ UNCHANGED <<current_frame, framebuffer_resized, image_index, setupVars, detailVars, device_lost, create_info,
                   windowVars, chainVars, fenceVars, semVars, cmdVars, devVars>>

\* update_uniform_buffer(current_frame); vkResetFences(in_flight fence).
TA_UpdateUniform ==
    /\ pc = "ta_update_uniform"
    /\ in_flight_fences' = [in_flight_fences EXCEPT ![current_frame] = FALSE]
    /\ pc' = "ta_record"
    /\ UNCHANGED <<current_frame, framebuffer_resized, rs_nonzero, rs_ret, result, image_index,
                   setupVars, detailVars, device_lost, create_info, windowVars, chainVars, compute_in_flight_fences,
                   semVars, cmdVars, devVars>>

\* What TriangleApplication::record_command_buffer records: a draw into a
\* framebuffer of the current swapchain with descriptor_sets[current_frame].
TriangleCommands ==
    [chain |-> swap_chain, reads |-> {Ubo(current_frame)}, writes |-> {},
     dispatch |-> <<>>]

TA_Record ==
    /\ pc = "ta_record"
    /\ \E ok \in BOOLEAN :
         IF ok
         THEN /\ command_buffers' =
                     [command_buffers EXCEPT ![current_frame] = TriangleCommands]
              /\ pc' = "ta_submit"
         ELSE /\ pc' = "fatal"
              /\ UNCHANGED command_buffers
    /\ UNCHANGED <<current_frame, framebuffer_resized, rs_nonzero, rs_ret, result, image_index,
                   setupVars, detailVars, device_lost, create_info, windowVars, chainVars, fenceVars, semVars,
                   compute_command_buffers, devVars>>

TA_Submit ==
    /\ pc = "ta_submit"
    /\ SubmitGraphics("ta_present")
    /\ UNCHANGED <<presents, current_frame, framebuffer_resized, rs_nonzero, rs_ret,
                   result, image_index,
                   setupVars, snapshots, sc, staging, device_lost, create_info, windowVars, chainVars, fenceVars, semVars, cmdVars>>

TA_Present ==
    /\ pc = "ta_present"
    /\ QueuePresent("ta_presented")
    /\ UNCHANGED <<current_frame, framebuffer_resized, rs_nonzero, rs_ret,
                   image_index,
                   setupVars, snapshots, sc, staging, device_lost, create_info, windowVars, chainVars, fenceVars, semVars,
                   cmdVars, ops, unconfirmed>>

TA_Presented ==
    /\ pc = "ta_presented"
    /\ PresentResult
    /\ UNCHANGED <<current_frame, image_index, setupVars, detailVars, device_lost, create_info, windowVars, chainVars,
                   fenceVars, semVars, cmdVars, devVars>>

TA_Advance ==
    /\ pc = "ta_advance"
    /\ current_frame' = NextFrame
    /\ image_index' = NoChain
    /\ pc' = "main_loop"
    /\ UNCHANGED <<framebuffer_resized, rs_nonzero, rs_ret, result, setupVars, detailVars, device_lost, create_info,
                   windowVars, chainVars, fenceVars, semVars, cmdVars, devVars>>

\* ---------------------------------------------------- recreate_swap_chain
\* Body of the while loop: glfwGetFramebufferSize reads the size, then
\* glfwWaitEvents blocks until an event is pending (a resize may arrive
\* meanwhile) and processes it; the loop then tests the size it read.
RS_Loop ==
    /\ pc = "rs_loop"
    /\ rs_nonzero' = fb_nonzero
    /\ \E ev \in WindowEvents, resized \in BOOLEAN, nz \in BOOLEAN :
         /\ ev_resize \/ resized \/ ev # "none"
         /\ resized \/ nz = fb_nonzero
         /\ fb_nonzero' = nz
         /\ ProcessEvents(ev, ev_resize \/ resized)
    /\ pc' = IF fb_nonzero THEN "rs_wait_idle" ELSE "rs_loop"
    /\ UNCHANGED <<current_frame, rs_ret, result, image_index, setupVars, detailVars, device_lost, create_info, should_close, close_flag,
                   chainVars, fenceVars, semVars, cmdVars, devVars>>

\* vkDeviceWaitIdle(logical_device).
RS_WaitIdle ==
    /\ pc = "rs_wait_idle"
    /\ DeviceWaitIdle
    /\ unconfirmed' = NoneUnconfirmed
    /\ pc' = "rs_cleanup"
    /\ UNCHANGED <<current_frame, framebuffer_resized, rs_nonzero, rs_ret, result, image_index,
                   setupVars, detailVars, device_lost, create_info, windowVars, chainVars, fenceVars, semVars,
                   cmdVars, ops, presents>>

\* A cleanup_swap_chain that frees the command buffers recorded for the
\* swapchain with it.
RS_CleanupAll ==
    /\ pc = "rs_cleanup"
    /\ sc_objects' = {}
    /\ command_buffers' = [i \in Slots |-> NotRecorded]
    /\ pc' = "rs_choose"
    /\ UNCHANGED <<current_frame, framebuffer_resized, rs_nonzero, rs_ret, result, image_index,
                   setupVars, detailVars, device_lost, create_info, windowVars, swap_chain, fenceVars, semVars,
                   compute_command_buffers, devVars>>

\* cleanup_swap_chain: framebuffers, image views and the swapchain (and the
\* color and depth attachments of TriangleApplication) are destroyed.
RS_Cleanup ==
    /\ pc = "rs_cleanup"
    /\ sc_objects' = {}
    /\ pc' = "rs_choose"
    /\ UNCHANGED <<current_frame, framebuffer_resized, rs_nonzero, rs_ret, result, image_index,
                   setupVars, detailVars, device_lost, create_info, windowVars, swap_chain, fenceVars, semVars,
                   cmdVars, devVars>>

\* The head of create_swap_chain: query_swap_chain_support and the choice of
\* the surface format and the present mode; neither is checked.
RS_Choose ==
    /\ pc = "rs_choose"
    /\ \E formats \in SurfaceFormats, present_modes \in SUBSET PresentModes :
         \E surface_format \in choose_swap_surface_format(formats) :
            IF surface_format = "crash"
            THEN /\ pc' = "fatal"
                 /\ UNCHANGED create_info
            ELSE /\ create_info' =
                        [formats |-> formats, present_modes |-> present_modes,
                         imageFormat |-> surface_format,
                         presentMode |-> choose_swap_present_mode(present_modes)]
                 /\ pc' = "rs_create"
    /\ UNCHANGED <<current_frame, framebuffer_resized, rs_nonzero, rs_ret, result,
                   image_index, setupVars, detailVars, device_lost, windowVars, chainVars, fenceVars,
                   semVars, cmdVars, devVars>>

\* vkCreateSwapchainKHR with the chosen configuration, create_image_views,
\* (create_color_resources, create_depth_resources,) create_framebuffers; any
\* of them may throw.
RS_Create ==
    /\ pc = "rs_create"
    /\ \E ok \in BOOLEAN :
         IF ok
         THEN /\ swap_chain < MaxSwapChains
              /\ swap_chain' = swap_chain + 1
              /\ sc_objects' = ChainObjects
              /\ pc' = IF rs_ret = "return" THEN "main_loop" ELSE AdvancePc
              /\ rs_nonzero' = FALSE
              /\ rs_ret' = "none"
         ELSE /\ pc' = "fatal"
              /\ UNCHANGED <<chainVars, rs_nonzero, rs_ret>>
    /\ create_info' = NoInfo
    /\ UNCHANGED <<current_frame, framebuffer_resized, result, image_index,
                   setupVars, detailVars, device_lost,
                   windowVars, fenceVars, semVars, cmdVars, devVars>>

\* ------------------------------------------------------- specifications
Next ==
    \/ InitVulkan
    \/ CreateComputeDescriptorSets
    \/ CreateSyncObjects
    \/ WindowResize
    \/ MainLoop
    \/ MainLoopWaitIdle
    \/ Cleanup
    \/ \E o \in ops : OpBegin(o)
    \/ \E o \in ops : OpComplete(o)
    \/ PresentBegin
    \/ PresentComplete
    \/ CS_WaitComputeFence
    \/ CS_UpdateUniform
    \/ CS_RecordCompute
    \/ CS_SubmitCompute
    \/ CS_WaitFence
    \/ CS_Acquire
    \/ CS_Acquired
    \/ CS_ResetFence
    \/ CS_Record
    \/ CS_Submit
    \/ CS_Present
    \/ CS_Presented
    \/ CS_Advance
    \/ TA_WaitFence
    \/ TA_Acquire
    \/ TA_Acquired
    \/ TA_UpdateUniform
    \/ TA_Record
    \/ TA_Submit
    \/ TA_Present
    \/ TA_Presented
    \/ TA_Advance
    \/ RS_Loop
    \/ RS_WaitIdle
    \/ RS_Cleanup
    \/ RS_Choose
    \/ RS_Create

Spec == Init /\ [][Next]_vars

\* The steps of the host thread: everything but the window system's resize
\* and the device's progress.
HostStep ==
    \/ InitVulkan
    \/ CreateComputeDescriptorSets
    \/ CreateSyncObjects
    \/ MainLoop
    \/ MainLoopWaitIdle
    \/ Cleanup
    \/ CS_WaitComputeFence
    \/ CS_UpdateUniform
    \/ CS_RecordCompute
    \/ CS_SubmitCompute
    \/ CS_WaitFence
    \/ CS_Acquire
    \/ CS_Acquired
    \/ CS_ResetFence
    \/ CS_Record
    \/ CS_Submit
    \/ CS_Present
    \/ CS_Presented
    \/ CS_Advance
    \/ TA_WaitFence
    \/ TA_Acquire
    \/ TA_Acquired
    \/ TA_UpdateUniform
    \/ TA_Record
    \/ TA_Submit
    \/ TA_Present
    \/ TA_Presented
    \/ TA_Advance
    \/ RS_Loop
    \/ RS_WaitIdle
    \/ RS_Cleanup
    \/ RS_Choose
    \/ RS_Create

\* create_compute_descriptor_sets alone, for every frames-in-flight count.
InitDescriptors ==
    /\ app = "compute"
    /\ nframes \in 2 .. MaxFrames
    /\ nparticles = particle_count
    /\ sim = NoSim
    /\ InitCommon

NextDescriptors ==
    \/ InitVulkan
    \/ CreateComputeDescriptorSets

SpecDescriptors == InitDescriptors /\ [][NextDescriptors]_vars

\* The host is in a wait that cannot return yet.
HostWaiting ==
    \/ pc = "cs_wait_compute_fence" /\ ~compute_in_flight_fences[current_frame]
    \/ pc \in {"cs_wait_fence", "ta_wait_fence"} /\ ~in_flight_fences[current_frame]
    \/ pc \in {"rs_wait_idle", "device_wait_idle"} /\ ~DeviceIdle

\* The device is lost while the host waits for it; a loss at another time
\* shows to the host at its next wait. A lost device executes nothing more.
DeviceLost ==
    /\ HostWaiting
    /\ ~device_lost
    /\ device_lost' = TRUE
    /\ UNCHANGED <<hostVars, setupVars, detailVars, create_info, windowVars, chainVars,
                   fenceVars, semVars, cmdVars, devVars>>

NextDeviceLost ==
    \/ InitVulkan
    \/ CreateComputeDescriptorSets
    \/ CreateSyncObjects
    \/ MainLoop
    \/ MainLoopWaitIdle
    \/ Cleanup
    \/ \E o \in ops : OpBegin(o)
    \/ \E o \in ops : OpComplete(o)
    \/ PresentBegin
    \/ PresentComplete
    \/ CS_WaitComputeFence
    \/ CS_UpdateUniform
    \/ CS_RecordCompute
    \/ CS_SubmitCompute
    \/ CS_WaitFence
    \/ CS_Acquire
    \/ CS_Acquired
    \/ CS_ResetFence
    \/ CS_Record
    \/ CS_Submit
    \/ CS_Present
    \/ CS_Presented
    \/ CS_Advance
    \/ TA_WaitFence
    \/ TA_Acquire
    \/ TA_Acquired
    \/ TA_UpdateUniform
    \/ TA_Record
    \/ TA_Submit
    \/ TA_Present
    \/ TA_Presented
    \/ TA_Advance
    \/ DeviceLost

\* The runs in which the device may be lost, up to the first call of
\* recreate_swap_chain and with a window that is not resized.
SpecDeviceLost == Init /\ [][NextDeviceLost]_vars

\* The progress of the device.
DeviceStep ==
    \/ \E o \in ops : OpBegin(o)
    \/ \E o \in ops : OpComplete(o)
    \/ PresentBegin
    \/ PresentComplete

\* The user asks to close the window and GLFW sets the close flag while it
\* processes events (in glfwPollEvents or glfwWaitEvents); only the test of
\* main_loop reads the flag, so the flag may be set at any point after events
\* were first processed.
CloseWindow ==
    /\ events_processed
    /\ pc \notin {"device_wait_idle", "cleanup", "fatal", "done"}
    /\ ~close_flag
    /\ close_flag' = TRUE
    /\ UNCHANGED <<hostVars, setupVars, detailVars, device_lost, create_info, should_close,
                   events_processed, ev_resize, fb_nonzero, chainVars, fenceVars,
                   semVars, cmdVars, devVars>>

NextClose ==
    \/ Next
    \/ CloseWindow

\* The steps the host thread takes by itself: every step but the wait of
\* recreate_swap_chain for an event that gives the framebuffer an area,
\* which is up to the user.
HostProgress ==
    /\ pc = "rs_loop" => fb_nonzero
    /\ HostStep

\* The runs with the close flag tracked. The host thread runs whenever it
\* can by itself and the device goes on with the work it can do; nothing is
\* assumed of the user.
SpecClose ==
    /\ Init
    /\ [][NextClose]_vars
    /\ WF_vars(HostProgress)
    /\ WF_vars(DeviceStep)

\* ------------------------------------------ the upload of the particles
stagingUnchanged ==
    UNCHANGED <<current_frame, framebuffer_resized, rs_nonzero, rs_ret, result,
                image_index, setupVars, snapshots, sc, sim, device_lost,
                create_info, windowVars, chainVars, fenceVars, semVars, cmdVars>>

\* create_shader_storage_buffers up to its loop: the staging buffer is
\* created and filled with the initial particles; create_buffer can throw.
ST_CreateStaging ==
    /\ pc = "init_vulkan"
    /\ \E ok \in BOOLEAN :
         IF ok
         THEN /\ staging' = [staging_buffer |-> "live", i |-> 0]
              /\ pc' = "copy_buffer"
         ELSE /\ pc' = "fatal"
              /\ UNCHANGED staging
    /\ UNCHANGED devVars
    /\ stagingUnchanged

\* The loop test and copy_buffer up to vkQueueSubmit, whose result is not
\* looked at: the copy from the staging buffer to shader_storage_buffers[i]
\* is given to the graphics queue, or it is not.
ST_CopyBuffer ==
    /\ pc = "copy_buffer"
    /\ staging.i < nframes
    /\ \E ok \in QueueSubmitOk :
         ops' = IF ok
                THEN ops \cup {Op("copy", staging.i, "queued", NoChain,
                                  {<<"staging_buffer", 0>>}, {Ssbo(staging.i)},
                                  FALSE)}
                ELSE ops
    /\ pc' = "queue_wait_idle"
    /\ UNCHANGED <<staging, presents, unconfirmed>>
    /\ stagingUnchanged

\* A vkQueueWaitIdle that returns at once.
NoQueueWait(queue) == TRUE

\* vkQueueWaitIdle(queue) returns when nothing submitted to the queue is
\* pending.
QueueWaitIdle(queue) == \A o \in ops : QueueOf(o.kind) # queue

\* copy_buffer from vkQueueWaitIdle to its return, and the loop increment.
ST_QueueWaitIdle ==
    /\ pc = "queue_wait_idle"
    /\ QueueWaitIdle(QueueOf("graphics"))
    /\ staging' = [staging EXCEPT !.i = @ + 1]
    /\ pc' = "copy_buffer"
    /\ UNCHANGED devVars
    /\ stagingUnchanged

\* After the loop: vkDestroyBuffer and vkFreeMemory of the staging buffer;
\* init_vulkan goes on.
ST_DestroyStaging ==
    /\ pc = "copy_buffer"
    /\ staging.i >= nframes
    /\ staging' = [staging EXCEPT !.staging_buffer = "destroyed"]
    /\ pc' = "create_compute_descriptor_sets"
    /\ UNCHANGED devVars
    /\ stagingUnchanged

NextStaging ==
    \/ ST_CreateStaging
    \/ ST_CopyBuffer
    \/ ST_QueueWaitIdle
    \/ ST_DestroyStaging
    \/ \E o \in ops : OpBegin(o)
    \/ \E o \in ops : OpComplete(o)
    \/ CreateComputeDescriptorSets
    \/ CreateSyncObjects

\* init_vulkan of ComputeShaderApplication from create_shader_storage_buffers
\* to the first test of main_loop, for every frames-in-flight count.
SpecStaging == InitDescriptors /\ [][NextStaging]_vars

\* ------------------------------------------- the steps of the simulation
\* The compute application with the simulation steps counted: every storage
\* buffer holds the initial particles, nothing was presented. The window is
\* not resized.
InitSim ==
    /\ app = "compute"
    /\ nframes = max_frames_in_flight
    /\ nparticles = particle_count
    /\ sim = [tracked |-> TRUE,
              steps |-> [b \in 0 .. max_frames_in_flight - 1 |-> 0],
              frame_of |-> [s \in 0 .. max_frames_in_flight - 1 |-> 0],
              presented |-> 0]
    /\ InitCommon

NextSim ==
    \/ InitVulkan
    \/ CreateComputeDescriptorSets
    \/ CreateSyncObjects
    \/ MainLoop
    \/ MainLoopWaitIdle
    \/ Cleanup
    \/ DeviceStep
    \/ CS_WaitComputeFence
    \/ CS_UpdateUniform
    \/ CS_RecordCompute
    \/ CS_SubmitCompute
    \/ CS_WaitFence
    \/ CS_Acquire
    \/ CS_Acquired
    \/ CS_ResetFence
    \/ CS_Record
    \/ CS_Submit
    \/ CS_Present
    \/ CS_Presented
    \/ CS_Advance
    \/ RS_WaitIdle
    \/ RS_Cleanup
    \/ RS_Choose
    \/ RS_Create

SpecSim == InitSim /\ [][NextSim]_vars

\* ------------------------------------- the objects built from the swapchain
\* What the surface reports to a create_swap_chain call whose objects are
\* tracked: the surface has a current extent and reports a format.
ChainInputs ==
    [minImageCount : 1 .. MaxImages, maxImageCount : {0, MaxImages},
     currentExtent : ExtentValues, formats : SurfaceFormats \ {<<>>}]

CapabilitiesOf(in) ==
    [minImageCount |-> in.minImageCount, maxImageCount |-> in.maxImageCount,
     currentExtent |-> in.currentExtent, minImageExtent |-> <<1, 1>>,
     maxImageExtent |-> <<MaxExtent, MaxExtent>>]

\* The call that follows `call` in init_vulkan (the first swapchain) and in
\* recreate_swap_chain (the later ones); "frame_loop" stands for main_loop.
NextCall(call) ==
    CASE call = "create_swap_chain" -> "create_image_views"
      [] call = "create_image_views" ->
            IF swap_chain = 1 THEN "create_render_pass"
            ELSE IF app = "compute" THEN "create_framebuffers"
            ELSE "create_color_resources"
      [] call = "create_render_pass" ->
            IF app = "compute" THEN "create_framebuffers"
            ELSE "create_color_resources"
      [] call = "create_color_resources" -> "create_depth_resources"
      [] call = "create_depth_resources" -> "create_framebuffers"
      [] call = "create_framebuffers" -> "frame_loop"

\* A call that succeeds goes on to the next call, one that throws ends the run.
Call(ok, call) == pc' = IF ok THEN NextCall(call) ELSE "fatal"

objectsUnchanged ==
    UNCHANGED <<current_frame, framebuffer_resized, rs_nonzero, rs_ret, result,
                image_index, setupVars, snapshots, staging, sim, device_lost, create_info,
                windowVars, sc_objects, fenceVars, semVars, cmdVars, devVars>>

\* create_swap_chain: a new swapchain with its images, format and extent.
RC_CreateSwapChain ==
    /\ pc \in {"init_vulkan", "create_swap_chain"}
    /\ sc_objects = {}
    /\ swap_chain < MaxSwapChains + 1
    /\ \E in \in ChainInputs, ok \in BOOLEAN :
         \E surface_format \in choose_swap_surface_format(in.formats) :
            /\ Call(ok, "create_swap_chain")
            /\ IF ok
               THEN /\ swap_chain' = swap_chain + 1
                    /\ sc' = [sc EXCEPT
                         !.swap_chain_images =
                             [i \in 1 .. ImageCountOf(CapabilitiesOf(in)) |->
                                 [swap_chain |-> swap_chain + 1, index |-> i]],
                         !.swap_chain_image_format = surface_format,
                         !.swap_chain_extent =
                             choose_swap_extent(CapabilitiesOf(in), <<1, 1>>)]
               ELSE UNCHANGED <<swap_chain, sc>>
    /\ objectsUnchanged

\* create_image_view(image, format, ...).
create_image_view(image, format) ==
    [image |-> image, format |-> format, live |-> TRUE]

\* create_image_views without the resize of the vector: the views of the
\* images the vector has room for.
ImageViewsNoResize(images, format, views) ==
    [i \in 1 .. Len(views) |->
        IF i <= Len(images) THEN create_image_view(images[i], format)
        ELSE views[i]]

\* create_image_views: the vector resized to the number of images, one view
\* of each image in the swapchain's format.
ImageViews(images, format, views) ==
    [i \in 1 .. Len(images) |-> create_image_view(images[i], format)]

RC_CreateImageViews ==
    /\ pc = "create_image_views"
    /\ \E ok \in BOOLEAN :
         /\ Call(ok, "create_image_views")
         /\ IF ok
            THEN sc' = [sc EXCEPT !.swap_chain_image_views =
                          ImageViews(sc.swap_chain_images,
                                     sc.swap_chain_image_format, @)]
            ELSE UNCHANGED sc
    /\ UNCHANGED swap_chain
    /\ objectsUnchanged

\* create_render_pass: the color attachment has the swapchain's format.
RC_CreateRenderPass ==
    /\ pc = "create_render_pass"
    /\ \E ok \in BOOLEAN :
         /\ Call(ok, "create_render_pass")
         /\ IF ok
            THEN sc' = [sc EXCEPT !.render_pass = sc.swap_chain_image_format]
            ELSE UNCHANGED sc
    /\ UNCHANGED swap_chain
    /\ objectsUnchanged

\* The image create_image makes for an attachment and its view.
Attachment(kind, format) ==
    create_image_view([attachment |-> kind, extent |-> sc.swap_chain_extent,
                       made_for |-> swap_chain], format)

\* create_color_resources / create_depth_resources of TriangleApplication.
RC_CreateColorResources ==
    /\ pc = "create_color_resources"
    /\ \E ok \in BOOLEAN :
         /\ Call(ok, "create_color_resources")
         /\ IF ok
            THEN sc' = [sc EXCEPT !.color_image_view =
                          Attachment("color", sc.swap_chain_image_format)]
            ELSE UNCHANGED sc
    /\ UNCHANGED swap_chain
    /\ objectsUnchanged

RC_CreateDepthResources ==
    /\ pc = "create_depth_resources"
    /\ \E ok \in BOOLEAN :
         /\ Call(ok, "create_depth_resources")
         /\ IF ok
            THEN sc' = [sc EXCEPT !.depth_image_view =
                          Attachment("depth", "depth_format")]
            ELSE UNCHANGED sc
    /\ UNCHANGED swap_chain
    /\ objectsUnchanged

\* create_framebuffers: the vector resized to the number of views, one
\* framebuffer for each view, of the swapchain's extent, for the render pass.
Framebuffers(views) ==
    [i \in 1 .. Len(views) |->
        [attachments |->
             IF app = "compute" THEN <<views[i]>>
             ELSE <<sc.color_image_view, sc.depth_image_view, views[i]>>,
         extent |-> sc.swap_chain_extent,
         renderPass |-> sc.render_pass,
         live |-> TRUE]]

RC_CreateFramebuffers ==
    /\ pc = "create_framebuffers"
    /\ \E ok \in BOOLEAN :
         /\ Call(ok, "create_framebuffers")
         /\ IF ok
            THEN /\ sc' = [sc EXCEPT !.swap_chain_framebuffers =
                             Framebuffers(sc.swap_chain_image_views)]
                 /\ sc_objects' = ChainObjects
            ELSE UNCHANGED <<sc, sc_objects>>
    /\ UNCHANGED <<swap_chain, current_frame, framebuffer_resized, rs_nonzero,
                   rs_ret, result, image_index, setupVars, snapshots, staging, sim,
                   device_lost, create_info, windowVars, fenceVars, semVars, cmdVars,
                   devVars>>

\* The handle that stays in a member after the object was destroyed.
Destroyed(object) == [object EXCEPT !.live = FALSE]

\* cleanup_swap_chain, called by recreate_swap_chain once the device is
\* idle: the framebuffers, the views (in TriangleApplication the two
\* attachments too) and the swapchain are destroyed; the vectors keep
\* their size.
RC_CleanupSwapChain ==
    /\ pc = "frame_loop"
    /\ swap_chain < MaxSwapChains + 1
    /\ sc' = [sc EXCEPT
          !.swap_chain_framebuffers = [i \in DOMAIN @ |-> Destroyed(@[i])],
          !.swap_chain_image_views = [i \in DOMAIN @ |-> Destroyed(@[i])],
          !.color_image_view = Destroyed(@),
          !.depth_image_view = Destroyed(@)]
    /\ sc_objects' = {}
    /\ pc' = "create_swap_chain"
    /\ UNCHANGED <<swap_chain, current_frame, framebuffer_resized, rs_nonzero,
                   rs_ret, result, image_index, setupVars, snapshots, staging, sim,
                   device_lost, create_info, windowVars, fenceVars, semVars, cmdVars,
                   devVars>>

NextObjects ==
    \/ RC_CreateSwapChain
    \/ RC_CreateImageViews
    \/ RC_CreateRenderPass
    \/ RC_CreateColorResources
    \/ RC_CreateDepthResources
    \/ RC_CreateFramebuffers
    \/ RC_CleanupSwapChain

\* The runs of init_vulkan and recreate_swap_chain with every object built
\* from the swapchain tracked, for surfaces whose image count, extent and
\* formats differ from one create_swap_chain call to the next.
SpecObjects == Init /\ [][NextObjects]_vars

\* create_swap_chain as a function of what the surface and the window
\* report: the image count, format and extent of the swapchain it builds.
\* A second call is given what the first one was given.
CreateSwapChainCall ==
    /\ pc = "init_vulkan"
    /\ Len(snapshots) < 2
    /\ \E in \in (IF snapshots = <<>> THEN SwapChainInputs
                   ELSE {snapshots[1].given}) :
         \E surface_format \in choose_swap_surface_format(in.formats) :
               IF surface_format = "crash"
               THEN /\ pc' = "fatal"
                    /\ UNCHANGED snapshots
               ELSE /\ snapshots' = Append(snapshots,
                          [given |-> in,
                           image_count |-> ImageCountOf(in.capabilities),
                           swap_chain_image_format |-> surface_format,
                           swap_chain_extent |->
                               choose_swap_extent(in.capabilities, in.framebuffer)])
                    /\ pc' = pc
    /\ UNCHANGED <<current_frame, framebuffer_resized, rs_nonzero, rs_ret, result,
                   image_index, setupVars, sc, staging, sim, device_lost, create_info, windowVars,
                   chainVars, fenceVars, semVars, cmdVars, devVars>>

NextSwapChain == CreateSwapChainCall

InitSwapChain ==
    /\ app = "compute"
    /\ nframes = max_frames_in_flight
    /\ nparticles = particle_count
    /\ sim = NoSim
    /\ InitCommon

SpecSwapChain == InitSwapChain /\ [][NextSwapChain]_vars

\* The first recording of the compute command buffer, for every particle
\* count.
InitDispatch ==
    /\ app = "compute"
    /\ nframes = max_frames_in_flight
    /\ nparticles \in 1 .. MaxParticles
    /\ sim = NoSim
    /\ InitCommon

NextDispatch ==
    \/ InitVulkan
    \/ CreateComputeDescriptorSets
    \/ CreateSyncObjects
    \/ MainLoop
    \/ CS_WaitComputeFence
    \/ CS_UpdateUniform
    \/ CS_RecordCompute

SpecDispatch == InitDispatch /\ [][NextDispatch]_vars

\* ================================================================ claims
\* Abbreviations used by the properties below.
OutOfDate == "VK_ERROR_OUT_OF_DATE_KHR"
RecreatePcs == {"rs_loop", "rs_wait_idle", "rs_cleanup", "rs_choose", "rs_create"}
CreatePcs == {"rs_choose", "rs_create"}
SetupPcs == {"init_vulkan", "create_compute_descriptor_sets", "create_sync_objects"}
GraphicsCount == Cardinality(OpsOf("graphics"))

\* C1: where the host resets and re-records a slot's command buffer, it has
\* waited for the slot's fence and reset it, and no submission that uses the
\* buffer is pending on the device (both applications, every path).
C1_RecordAfterFence ==
    /\ pc = "cs_record_compute" =>
          /\ ~compute_in_flight_fences[current_frame]
          /\ unconfirmed["compute"][current_frame] = 0
          /\ \A o \in OpsOf("compute") : o.slot # current_frame
    /\ pc \in {"cs_record", "ta_record"} =>
          /\ ~in_flight_fences[current_frame]
          /\ unconfirmed["graphics"][current_frame] = 0
          /\ \A o \in OpsOf("graphics") : o.slot # current_frame

\* A command buffer recorded before is re-recorded while the other slot's
\* submission is still pending.
C1_Witness ==
    /\ pc \in {"cs_record", "ta_record"}
    /\ command_buffers[current_frame] # NotRecorded
    /\ OpsOf("graphics") # {}

\* C2: no pending compute submission writes a storage buffer that a pending
\* graphics submission of an earlier iteration still reads.
C2_NoWriteWhileDrawn ==
    \A c \in OpsOf("compute"), g \in OpsOf("graphics") :
       c.writes \cap g.reads # {} => g.needs_compute

\* C3: no two pending compute submissions exist of which one writes a buffer
\* the other reads.
C3_NoComputeOverlap ==
    \A c1 \in OpsOf("compute"), c2 \in OpsOf("compute") :
       c1 # c2 => c1.writes \cap c2.reads = {}

\* C4: a graphics submission never runs while the compute submission of the
\* same draw_frame call is still pending.
C4_DrawAfterCompute ==
    \A g \in OpsOf("graphics") : g.phase = "running" => ~g.needs_compute

\* C5: for every N >= 2 and every slot i, the buffer bound for reading by
\* create_compute_descriptor_sets differs from the buffer bound for writing.
C5_ReadNotWrite ==
    \A i \in DOMAIN compute_descriptor_sets :
       compute_descriptor_sets[i].last_frame # compute_descriptor_sets[i].current_frame

\* C6 (as claimed): every device queue has at most N submissions that the
\* host has not seen complete.
C6_AtMostNPerQueue == \A q \in Queues : UnconfirmedOn(q) <= nframes

\* C6 (amended): at most N compute submissions and at most N graphics
\* submissions are unconfirmed at once; a queue that receives both kinds
\* holds at most 2N unconfirmed submissions, a queue that receives one kind
\* at most N.
C6_AtMostNPerKind ==
    /\ \A k \in SubmitKinds : UnconfirmedOfKind(k) <= nframes
    /\ \A q \in Queues :
          UnconfirmedOn(q) <=
             nframes * Cardinality({k \in SubmitKinds : QueueOf(k) = q})

\* The shared queue holds 2N unconfirmed submissions.
C6_Witness == \E q \in Queues : UnconfirmedOn(q) = 2 * nframes

\* C7: when vkAcquireNextImageKHR reports out-of-date, draw_frame enters
\* recreate_swap_chain at once without submitting or presenting anything;
\* until recreate_swap_chain returns no graphics submission and no present is
\* issued and nothing throws but a failing creation call; it returns to
\* main_loop with current_frame unchanged and the slot's fences signalled, so
\* the next iteration is not blocked.
C7_OutOfDateAcquire ==
    [][/\ (pc \in {"cs_acquired", "ta_acquired"} /\ result = OutOfDate /\ pc' # pc) =>
            /\ pc' \in {"rs_loop", "rs_wait_idle"}
            /\ rs_ret' = "return"
            /\ UNCHANGED <<ops, presents, unconfirmed, current_frame>>
       /\ rs_ret = "return" =>
            /\ GraphicsCount' <= GraphicsCount
            /\ Len(presents') <= Len(presents)
            /\ pc' = "fatal" => pc \in CreatePcs
            /\ pc' \in RecreatePcs \cup {"fatal", "main_loop"}
            /\ pc' = "main_loop" =>
                  /\ current_frame' = current_frame
                  /\ in_flight_fences'[current_frame]
                  /\ app = "compute" => compute_in_flight_fences'[current_frame]
                  /\ swap_chain' = swap_chain + 1
                  /\ sc_objects' = ChainObjects
      ]_vars

\* recreate_swap_chain, called after an out-of-date acquisition, is about to
\* create the new swapchain.
C7_Witness == pc = "rs_create" /\ rs_ret = "return"

\* C8: after vkQueuePresentKHR, a suboptimal or out-of-date result or a set
\* framebuffer_resized leads into recreate_swap_chain without an error, any
\* other result but success throws; recreate_swap_chain is entered only from
\* the branches after acquisition and present and replaces the swapchain
\* once; it returns to the advance of current_frame, which steps by one.
C8_PresentBranch ==
    [][/\ (pc \in {"cs_presented", "ta_presented"} /\ pc' # pc) =>
            IF result \in {"VK_SUBOPTIMAL_KHR", OutOfDate} \/ framebuffer_resized
            THEN /\ pc' \in {"rs_loop", "rs_wait_idle"}
                 /\ rs_ret' = "advance"
                 /\ ~framebuffer_resized'
            ELSE IF result # "VK_SUCCESS"
                 THEN pc' = "fatal"
                 ELSE pc' \in {"cs_advance", "ta_advance"}
       /\ rs_ret = "advance" =>
            /\ pc' = "fatal" => pc \in CreatePcs
            /\ pc' \in RecreatePcs \cup {"fatal", "cs_advance", "ta_advance"}
            /\ pc' \notin RecreatePcs \cup {"fatal"} =>
                  /\ swap_chain' = swap_chain + 1
                  /\ current_frame' = current_frame
       /\ (pc \in {"cs_advance", "ta_advance"} /\ pc' # pc) =>
            /\ pc' = "main_loop"
            /\ current_frame' = (current_frame + 1) % nframes
       /\ (pc \notin RecreatePcs /\ pc' \in RecreatePcs) =>
            pc \in {"cs_acquired", "ta_acquired", "cs_presented", "ta_presented"}
       /\ (swap_chain' # swap_chain /\ pc \notin SetupPcs \cup {"cleanup"}) =>
            pc = "rs_create"
      ]_vars

\* recreate_swap_chain, called after a present, has drained the device.
C8_Witness == pc = "rs_cleanup" /\ rs_ret = "advance"

\* C9: cleanup_swap_chain runs on an idle device, the new chain is created
\* after the old objects are destroyed, and every pending operation refers to
\* the current swapchain, whose objects are alive.
C9_DrainDestroyCreate ==
    /\ pc = "rs_cleanup" => (ops = {} /\ presents = <<>> /\ sc_objects = ChainObjects)
    /\ pc \in CreatePcs => (ops = {} /\ presents = <<>> /\ sc_objects = {})
    /\ \A o \in ops \cup {presents[k] : k \in DOMAIN presents} :
          o.chain # NoChain => (o.chain = swap_chain /\ ChainObjects \subseteq sc_objects)

\* The old chain, which recorded command buffers referred to, is destroyed.
C9_Witness ==
    /\ pc = "rs_create"
    /\ sc_objects = {}
    /\ command_buffers[current_frame].chain = swap_chain

\* C10: cleanup runs only after the window was closed and the device drained,
\* and up to then every object created by init_vulkan is alive.
C10_DrainBeforeCleanup ==
    /\ pc \in {"cleanup", "done"} =>
          (should_close /\ ops = {} /\ presents = <<>> /\ unconfirmed = NoneUnconfirmed)
    /\ pc \notin SetupPcs \cup {"fatal", "done"} =>
          (sc_objects # {} \/ pc \in CreatePcs) /\ swap_chain # NoChain
             /\ DOMAIN in_flight_fences = Slots /\ DOMAIN command_buffers = Slots

\* The application shut down after it had drawn frames.
C10_Witness == pc = "done" /\ current_frame = 1

\* C11: recreate_swap_chain entered with a zero-sized framebuffer goes into
\* its while loop, where nothing is drained, destroyed or created; it leaves
\* the loop for the drain only in an iteration whose glfwGetFramebufferSize
\* returned a nonzero size.
C11_ZeroSizeWaits ==
    [][/\ (pc \notin RecreatePcs /\ pc' \in RecreatePcs) =>
            pc' = (IF fb_nonzero THEN "rs_wait_idle" ELSE "rs_loop")
       /\ pc = "rs_loop" =>
            /\ UNCHANGED <<swap_chain, sc_objects, unconfirmed>>
            /\ pc' \in {"rs_loop", "rs_wait_idle"}
            /\ pc' = "rs_wait_idle" => (fb_nonzero /\ rs_nonzero')
       /\ (pc' \in {"rs_cleanup"} \cup CreatePcs /\ pc' # pc) => rs_nonzero
      ]_vars

\* The loop has polled a zero size at least once and the surface has become
\* nonzero since: nothing was drained, destroyed or created so far.
C11_Witness ==
    pc = "rs_loop" /\ fb_nonzero /\ sc_objects = ChainObjects /\ ops # {}

\* C12: with the swapchains numbered in the order of their creation, from
\* the acquisition to the present of an iteration the acquired image belongs
\* to the current swapchain, the command buffer that is submitted was
\* recorded against the current swapchain, and every queued present hands an
\* image to the swapchain it was acquired from.
C12_SameGeneration ==
    /\ pc \in {"cs_reset_fence", "cs_record", "cs_submit", "cs_present",
               "ta_update_uniform", "ta_record", "ta_submit", "ta_present"} =>
          image_index = swap_chain
    /\ pc \in {"cs_submit", "ta_submit"} =>
          command_buffers[current_frame].chain = swap_chain
    /\ \A g \in OpsOf("graphics") : g.chain = swap_chain
    /\ \A k \in DOMAIN presents :
          presents[k].image = presents[k].chain /\ presents[k].chain # NoChain

\* An image of the second swapchain is about to be presented while a command
\* buffer recorded against the first one still exists.
C12_Witness ==
    /\ pc \in {"cs_present", "ta_present"}
    /\ swap_chain > 1
    /\ image_index = swap_chain
    /\ \E i \in Slots : command_buffers[i].chain \notin {NoChain, swap_chain}

\* C13: a fence the host waits for is signalled or has a pending submission
\* that will signal it, and on the first use of a slot (its command buffer
\* was never recorded) the fence is signalled from its creation: the host
\* never blocks on a fence for which no submission has been issued.
C13_FirstWaitsPass ==
    /\ pc = "cs_wait_compute_fence" =>
          /\ compute_in_flight_fences[current_frame]
                \/ \E o \in OpsOf("compute") : o.slot = current_frame
          /\ compute_command_buffers[current_frame] = NotRecorded =>
                compute_in_flight_fences[current_frame]
    /\ pc \in {"cs_wait_fence", "ta_wait_fence"} =>
          /\ in_flight_fences[current_frame]
                \/ \E o \in OpsOf("graphics") : o.slot = current_frame
          /\ command_buffers[current_frame] = NotRecorded =>
                in_flight_fences[current_frame]

\* The second iteration waits for the fence of the second slot, which was
\* never submitted with, while the first iteration's work is pending.
C13_Witness ==
    /\ pc \in {"cs_wait_fence", "ta_wait_fence"}
    /\ current_frame = 1
    /\ command_buffers[current_frame] = NotRecorded
    /\ OpsOf("graphics") # {}

\* C14: the group count of every recorded dispatch is ceil(p / 256) for the
\* particle count p: the groups cover every particle and none is spare.
C14_DispatchCoversAll ==
    \A i \in DOMAIN compute_command_buffers :
        LET d == compute_command_buffers[i].dispatch
        IN  d # <<>> =>
              /\ d[1] * GroupSize >= nparticles
              /\ (d[1] - 1) * GroupSize < nparticles

\* C15: with 8192 particles every recorded compute command buffer requests
\* 32 groups in x and 1 in y and z.
C15_ThirtyTwoGroups ==
    \A i \in DOMAIN compute_command_buffers :
        compute_command_buffers[i] # NotRecorded =>
            compute_command_buffers[i].dispatch = <<32, 1, 1>>

\* Both slots' compute command buffers are recorded.
C15_Witness ==
    /\ app = "compute"
    /\ nframes = 2
    /\ nparticles = 8192
    /\ pc = "cs_submit_compute"
    /\ \A i \in Slots : compute_command_buffers[i].dispatch = <<32, 1, 1>>

\* The positions right after vkAcquireNextImageKHR and vkQueuePresentKHR,
\* and the positions of the calls whose failure throws.
BranchPcs == {"cs_acquired", "ta_acquired", "cs_presented", "ta_presented"}
ThrowingCallPcs ==
    {"init_vulkan", "cs_record_compute", "cs_submit_compute", "cs_record",
     "cs_submit", "ta_record", "ta_submit", "rs_choose", "rs_create"}

\* C16: out-of-date and suboptimal results and resize notifications never
\* lead to the fatal state: the run becomes fatal only at a call that failed
\* or on an acquire / present result that is neither success, suboptimal nor
\* out-of-date, and a transient result is followed by the recreation or by
\* the rest of the frame.
C16_TransientRecovered ==
    [][/\ (pc' = "fatal" /\ pc # "fatal") =>
            \/ pc \in ThrowingCallPcs
            \/ pc \in BranchPcs /\ result = "ERROR"
       /\ (pc \in BranchPcs /\ pc' # pc /\ result # "ERROR") =>
            pc' \in RecreatePcs \cup {"cs_reset_fence", "ta_update_uniform",
                                      "cs_advance", "ta_advance"}
      ]_vars

\* A suboptimal present with the resize flag set, after an earlier recovery.
C16_Witness ==
    /\ pc \in {"cs_presented", "ta_presented"}
    /\ result = "VK_SUBOPTIMAL_KHR"
    /\ framebuffer_resized
    /\ swap_chain > 1

\* C17: an acquire or present result that is neither success, suboptimal nor
\* out-of-date ends the run at once, and nothing happens after the fatal
\* state is reached.
C17_FailureStops ==
    [][/\ (pc \in BranchPcs /\ pc' # pc /\ result = "ERROR") => pc' = "fatal"
       /\ pc = "fatal" => UNCHANGED vars
      ]_vars

\* C18: recreate_swap_chain never goes on to create a swapchain with a
\* surface format or a present mode the surface did not offer.
C18_SupportedConfiguration ==
    pc = "rs_create" =>
        /\ \E i \in DOMAIN create_info.formats :
              create_info.formats[i] = create_info.imageFormat
        /\ create_info.presentMode \in create_info.present_modes

\* The host does nothing: it stays where it is, resets no fence, records no
\* command buffer, submits nothing and confirms nothing.
HostBlocked ==
    /\ pc' = pc
    /\ UNCHANGED <<current_frame, result, command_buffers,
                   compute_command_buffers, unconfirmed>>
    /\ \A i \in Slots : in_flight_fences[i] => in_flight_fences'[i]
    /\ \A i \in DOMAIN compute_in_flight_fences :
          compute_in_flight_fences[i] => compute_in_flight_fences'[i]

C20_FailedWaitFatal ==
    [][/\ (pc = "cs_wait_compute_fence" /\ pc' # pc
             /\ ~compute_in_flight_fences[current_frame]) => pc' = "fatal"
       /\ (pc \in {"cs_wait_fence", "ta_wait_fence"} /\ pc' # pc
             /\ ~in_flight_fences[current_frame]) => pc' = "fatal"
       /\ (pc \in {"rs_wait_idle", "device_wait_idle"} /\ pc' # pc
             /\ (OpsOf("compute") # {} \/ OpsOf("graphics") # {} \/ presents # <<>>))
            => pc' = "fatal"
      ]_vars

\* The positions of the fence waits, the device-idle drains and the image
\* acquisitions.
FenceWaitPcs == {"cs_wait_compute_fence", "cs_wait_fence", "ta_wait_fence"}
DrainPcs == {"rs_wait_idle", "device_wait_idle"}
AcquirePcs == {"cs_acquire", "ta_acquire"}

\* C21 as stated: outside the fence waits and the drains nothing makes the
\* host wait, so whenever vkAcquireNextImageKHR is called an image can be
\* handed out and whenever glfwWaitEvents is called an event is pending.
C21_OnlyWaitsBlock ==
    /\ pc \in AcquirePcs => ImageAvailable
    /\ pc = "rs_loop" => ev_resize

\* C21 amended: the host can be blocked at a fence wait, at a device-idle
\* drain, in vkAcquireNextImageKHR (timeout UINT64_MAX, no image available)
\* and in the glfwWaitEvents of the zero-area loop; at every other position
\* (recording, submission, presentation, fence reset, creation, destruction)
\* the host thread can take its next step whatever the device is doing, and
\* a fence wait or a drain whose condition holds returns.
C21_BlockingPoints ==
    /\ pc \notin FenceWaitPcs \cup DrainPcs \cup AcquirePcs \cup {"rs_loop", "fatal", "done"}
          => ENABLED HostStep
    /\ (pc \in {"cs_wait_fence", "ta_wait_fence"} /\ in_flight_fences[current_frame])
          => ENABLED HostStep
    /\ (pc = "cs_wait_compute_fence" /\ compute_in_flight_fences[current_frame])
          => ENABLED HostStep
    /\ (pc \in DrainPcs /\ ops = {} /\ presents = <<>>) => ENABLED HostStep

\* The host is about to submit graphics work while the device is busy with
\* earlier work and presentations.
C21_Witness ==
    /\ pc \in {"cs_submit", "ta_submit"}
    /\ \E o \in OpsOf("graphics") : o.phase = "running"
    /\ presents # <<>>

\* The positions of the compute draw_frame between its two submissions.
BetweenSubmitsPcs ==
    {"cs_wait_fence", "cs_acquire", "cs_acquired", "cs_reset_fence",
     "cs_record", "cs_submit"}

\* C22 as stated: between the compute submission and the graphics submission
\* the host never has to wait: the fence wait and the acquisition in between
\* find their fence signalled and an image available.
C22_NoBlockBetween ==
    /\ pc = "cs_wait_fence" => in_flight_fences[current_frame]
    /\ pc = "cs_acquire" => ImageAvailable

\* C22 amended: between the two submissions the host does not wait for the
\* compute submission it has just issued: no step there sees a compute
\* submission complete or touches a compute fence, and the graphics
\* submission is queued on the device with the slot's compute submission
\* counted as still in flight. (The host does wait there for the slot's
\* graphics fence and for an image.)
C22_NoHostWaitOnCompute ==
    [][(pc \in BetweenSubmitsPcs /\ pc' # pc) =>
          /\ unconfirmed'["compute"] = unconfirmed["compute"]
          /\ unconfirmed["compute"][current_frame] >= 1
          /\ compute_in_flight_fences' = compute_in_flight_fences
          /\ pc' = "cs_present" =>
                \E g \in ops' : /\ g.kind = "graphics"
                                /\ g.slot = current_frame
                                /\ g.phase = "queued"
      ]_vars

\* The graphics submission was issued while the compute submission of the
\* same iteration is still running.
C22_Witness ==
    /\ pc = "cs_present"
    /\ \E c \in OpsOf("compute") : c.slot = current_frame /\ c.phase = "running"
    /\ \E g \in OpsOf("graphics") : g.slot = current_frame /\ g.needs_compute

\* C23: when the host is about to run update_uniform_buffer(current_frame),
\* no pending device work reads uniform buffer current_frame, and every
\* submission that reads it has been seen complete by a fence wait; the next
\* submission reading it comes after the write.
C23_UniformWriteNoRace ==
    /\ pc = "cs_update_uniform" =>
          /\ \A o \in ops : Ubo(current_frame) \notin o.reads
          /\ unconfirmed["compute"][current_frame] = 0
    /\ pc = "ta_update_uniform" =>
          /\ \A o \in ops : Ubo(current_frame) \notin o.reads
          /\ unconfirmed["graphics"][current_frame] = 0

\* The host writes the parameters of a slot used before while the work of
\* the other slot, which reads its own parameters, is pending.
C23_Witness ==
    /\ \/ pc = "cs_update_uniform" /\ compute_command_buffers[current_frame] # NotRecorded
       \/ pc = "ta_update_uniform" /\ command_buffers[current_frame] # NotRecorded
    /\ \E o \in ops : \E i \in Slots : i # current_frame /\ Ubo(i) \in o.reads

AcquiredPcs == {"cs_acquired", "ta_acquired"}
PresentPcs == {"cs_present", "ta_present"}
PresentedPcs == {"cs_presented", "ta_presented"}

\* The order of the steps of recreate_swap_chain.
RecreateOrder ==
    {<<"rs_loop", "rs_wait_idle">>, <<"rs_wait_idle", "rs_cleanup">>,
     <<"rs_cleanup", "rs_choose">>, <<"rs_choose", "rs_create">>}

\* C24 as stated: once the window callback has notified a resize, no image
\* is acquired and nothing is presented before the swapchain is recreated.
C24_NoUseWhileInvalidated ==
    [][(pc \in AcquirePcs \cup PresentPcs /\ pc' # pc) => ~framebuffer_resized]_vars

\* C24 amended: an out-of-date acquisition, an out-of-date or suboptimal
\* present and a resize notification seen at the test after the present lead
\* into recreate_swap_chain, which drains, destroys and recreates in this
\* order and ends with a new swapchain; recreate_swap_chain starts only from
\* these three; a resize notification stays recorded in framebuffer_resized
\* until the test after the next present (so the acquisition and the present
\* of that iteration still use the old swapchain).
C24_InvalidateRecreate ==
    [][/\ (pc \in AcquiredPcs /\ pc' # pc /\ result = OutOfDate) =>
             pc' \in RecreatePcs
       /\ (pc \in PresentedPcs /\ pc' # pc
             /\ (result \in {OutOfDate, "VK_SUBOPTIMAL_KHR"} \/ framebuffer_resized)) =>
             (pc' \in RecreatePcs /\ ~framebuffer_resized')
       /\ (pc \notin RecreatePcs /\ pc' \in RecreatePcs) =>
             \/ pc \in AcquiredPcs /\ result = OutOfDate
             \/ pc \in PresentedPcs
                  /\ (result \in {OutOfDate, "VK_SUBOPTIMAL_KHR"} \/ framebuffer_resized)
       /\ (pc \in RecreatePcs /\ pc' # pc /\ pc' \in RecreatePcs) =>
             <<pc, pc'>> \in RecreateOrder
       /\ (pc \in RecreatePcs /\ pc' \notin RecreatePcs \cup {"fatal"}) =>
             (pc = "rs_create" /\ swap_chain' = swap_chain + 1
                /\ sc_objects' = ChainObjects)
       /\ (pc = "rs_cleanup" /\ pc' # pc) =>
             (ops = {} /\ presents = <<>> /\ sc_objects' = {})
       /\ (framebuffer_resized /\ ~framebuffer_resized') =>
             (pc \in PresentedPcs /\ pc' \in RecreatePcs)
      ]_vars

\* A resize notification alone (the present succeeded) is about to start the
\* recreation, after the acquisition and the present of this iteration.
C24_Witness ==
    /\ pc \in PresentedPcs
    /\ framebuffer_resized
    /\ result = "VK_SUCCESS"
    /\ presents # <<>>

C26_CloseEventuallyEnds ==
    ([]<>DeviceIdle) => (close_flag ~> (pc \in {"done", "fatal"}))

\* C27: for every N >= 2 and every slot i, the buffer bound for reading by
\* create_compute_descriptor_sets is the one written by the preceding slot,
\* shader_storage_buffers[(i - 1) mod N] with the mathematical modulus
\* (slot N - 1 for i = 0).
C27_ReadIsPrecedingSlot ==
    \A i \in DOMAIN compute_descriptor_sets :
       compute_descriptor_sets[i].last_frame = Ssbo((i + nframes - 1) % nframes)

\* The device starts the graphics submission of slot s, ends one, starts the
\* presentation queued with slot s.
GraphicsStarts(s) ==
    \E o \in OpsOf("graphics") :
       /\ o.slot = s
       /\ o.phase = "queued"
       /\ o \notin ops'
       /\ [o EXCEPT !.phase = "running"] \in ops'

GraphicsCompletes(s) ==
    \E o \in OpsOf("graphics") :
       /\ o.slot = s
       /\ o.phase = "running"
       /\ \A p \in ops' : ~(p.kind = "graphics" /\ p.slot = s /\ p.phase = "running")

PresentStarts(s) ==
    /\ presents # <<>>
    /\ presents[1].slot = s
    /\ presents[1].phase = "queued"
    /\ presents' # <<>>
    /\ presents'[1] = [presents[1] EXCEPT !.phase = "running"]

\* The presentation of the graphics submission of slot s has not started: it
\* is queued behind the first one, or vkQueuePresentKHR is still to be called
\* or has failed.
PresentPending(s) ==
    \/ \E k \in 2 .. Len(presents) : presents[k].slot = s
    \/ /\ current_frame = s
       /\ \/ pc \in PresentPcs
          \/ pc \in PresentedPcs /\ result = "ERROR"

\* What holds of the semaphores in both applications: a graphics submission
\* starts by consuming the slot's image-available semaphore, ends by
\* signalling its render-finished semaphore, which the presentation
\* consumes; no presentation starts while the graphics submission before it
\* is pending and no graphics submission starts while the acquisition before
\* it is pending.
RenderPresentOrder(s) ==
    /\ GraphicsStarts(s) =>
          /\ image_available_semaphores[s] /\ ~image_available_semaphores'[s]
          /\ \A a \in OpsOf("acquire") : a.slot # s
    /\ GraphicsCompletes(s) => render_finished_semaphores'[s]
    /\ PresentStarts(s) =>
          /\ render_finished_semaphores[s] /\ ~render_finished_semaphores'[s]
          /\ \A g \in OpsOf("graphics") : g.slot = s => PresentPending(s)

\* C28: every graphics submission waits on the slot's image-available
\* semaphore, and in ComputeShaderApplication on its compute-finished
\* semaphore too, and signals its render-finished semaphore, which the
\* presentation of the frame waits on; no presentation starts before the
\* rendering of its image has completed and no rendering starts before the
\* image was acquired.
C28_RenderPresentChain ==
    [][\A s \in Slots :
          /\ RenderPresentOrder(s)
          /\ (app = "compute" /\ GraphicsStarts(s)) =>
                compute_finished_semaphores[s] /\ ~compute_finished_semaphores'[s]]_vars

AdvancePcs == {"cs_advance", "ta_advance"}

\* C29: current_frame stays in 0 .. N-1 and every submission of an
\* iteration, compute or graphics, is made for the slot current_frame, which
\* does not change within the iteration; an iteration that reached the
\* present call ends by advancing current_frame by 1 modulo N (after the
\* recreation when there is one), one that stops on an out-of-date
\* acquisition leaves it as it is; presentations queued one after the other
\* have consecutive slots.
C29_SlotAdvance ==
    [][/\ current_frame' \in 0 .. (nframes - 1)
       /\ pc' # pc =>
             \A o \in ops' \ ops :
                o.slot = current_frame /\ current_frame' = current_frame
       /\ current_frame' # current_frame =>
             /\ pc \in AdvancePcs
             /\ current_frame' = (current_frame + 1) % nframes
       /\ (pc \in PresentedPcs /\ pc' # pc) =>
             \/ pc' \in AdvancePcs \cup {"fatal"}
             \/ pc' \in RecreatePcs /\ rs_ret' = "advance"
       /\ (pc \in AcquiredPcs /\ result = "VK_ERROR_OUT_OF_DATE_KHR" /\ pc' # pc) =>
             pc' \in RecreatePcs /\ rs_ret' = "return"
       /\ (pc \in RecreatePcs /\ pc' \notin RecreatePcs \cup {"fatal"}) =>
             IF rs_ret = "advance"
             THEN pc' \in AdvancePcs
             ELSE pc' = "main_loop" /\ current_frame' = current_frame
       /\ (pc \in AdvancePcs /\ pc' # pc) =>
             pc' = "main_loop" /\ current_frame' = (current_frame + 1) % nframes
       /\ \A k \in 1 .. (Len(presents') - 1) :
             presents'[k + 1].slot = (presents'[k].slot + 1) % nframes]_vars

\* After an iteration that presented and advanced to slot 1, the iteration
\* of slot 1 stops on an out-of-date acquisition and recreates the swapchain.
C29_Witness ==
    /\ pc \in RecreatePcs
    /\ rs_ret = "return"
    /\ current_frame = 1
    /\ presents # <<>>

\* C30: the vertex buffer of every graphics submission of
\* ComputeShaderApplication is the storage buffer that the compute commands
\* recorded in the same iteration write, the write binding of
\* compute_descriptor_sets[current_frame], and not the buffer they only read.
C30_DrawsWrittenBuffer ==
    [][(app = "compute" /\ pc' # pc) =>
          \A g \in ops' \ ops :
             g.kind = "graphics" =>
                /\ g.reads = compute_command_buffers[current_frame].writes
                /\ g.reads = {compute_descriptor_sets[current_frame].current_frame}
                /\ compute_descriptor_sets[current_frame].last_frame \notin g.reads
                /\ g.reads \cap compute_command_buffers[current_frame].reads = {}]_vars

\* A draw of slot 1 is pending on the device: it reads storage buffer 1, which
\* the compute commands of slot 1 write and those of slot 0 read.
C30_Witness ==
    /\ app = "compute"
    /\ \E g \in OpsOf("graphics") :
          /\ g.slot = 1
          /\ g.reads = {Ssbo(1)}
          /\ compute_command_buffers[1].writes = {Ssbo(1)}
          /\ Ssbo(1) \in compute_command_buffers[0].reads

\* C31: after every completed recreate_swap_chain there are as many image
\* views and as many framebuffers as the new swapchain has images; every
\* view is a live view of an image of the new swapchain, every framebuffer
\* is live, has the new extent and is built on the view of its image, and in
\* TriangleApplication on color and depth attachments made for the new
\* swapchain with the new extent; no destroyed object and none of an
\* earlier swapchain is left in the members.
C31_WhollyNew ==
    (pc = "frame_loop" /\ swap_chain > 1) =>
       /\ Len(sc.swap_chain_image_views) = Len(sc.swap_chain_images)
       /\ Len(sc.swap_chain_framebuffers) = Len(sc.swap_chain_images)
       /\ \A i \in DOMAIN sc.swap_chain_images :
             LET image == sc.swap_chain_images[i]
                 view == sc.swap_chain_image_views[i]
                 framebuffer == sc.swap_chain_framebuffers[i]
                 ends == Len(framebuffer.attachments)
             IN  /\ image.swap_chain = swap_chain
                 /\ view.live /\ view.image = image
                 /\ view.format = sc.swap_chain_image_format
                 /\ framebuffer.live
                 /\ framebuffer.extent = sc.swap_chain_extent
                 /\ framebuffer.attachments[ends] = view
                 /\ \A k \in 1 .. (ends - 1) :
                       /\ framebuffer.attachments[k].live
                       /\ framebuffer.attachments[k].image.made_for = swap_chain
                       /\ framebuffer.attachments[k].image.extent = sc.swap_chain_extent
       /\ app = "triangle" =>
             \A i \in DOMAIN sc.swap_chain_framebuffers :
                Len(sc.swap_chain_framebuffers[i].attachments) = 3

\* The second recreation of TriangleApplication has completed.
C31_Witness ==
    /\ app = "triangle"
    /\ pc = "frame_loop"
    /\ swap_chain = 3
    /\ Len(sc.swap_chain_framebuffers) = 2
    /\ sc.swap_chain_extent = <<2, 1>>

\* The fences, semaphores and command buffers of the frame slots exist.
SlotObjects ==
    <<DOMAIN in_flight_fences, DOMAIN compute_in_flight_fences,
      DOMAIN image_available_semaphores, DOMAIN render_finished_semaphores,
      DOMAIN compute_finished_semaphores, DOMAIN command_buffers,
      DOMAIN compute_command_buffers>>

\* C32: no step of recreate_swap_chain changes a command buffer, a
\* descriptor set or current_frame, none resets a fence, and the host's own
\* steps leave every fence and semaphore as it is (during the drain the
\* device goes on signalling them); the frame-slot objects, once created,
\* are all there until cleanup releases them.
C32_SlotsUntouched ==
    [][/\ pc \in RecreatePcs =>
            /\ UNCHANGED <<command_buffers, compute_command_buffers,
                           compute_descriptor_sets, current_frame>>
            /\ \A i \in DOMAIN in_flight_fences :
                  in_flight_fences[i] => in_flight_fences'[i]
            /\ \A i \in DOMAIN compute_in_flight_fences :
                  compute_in_flight_fences[i] => compute_in_flight_fences'[i]
            /\ (ops' = ops /\ presents' = presents) =>
                  UNCHANGED <<fenceVars, semVars>>
       /\ SlotObjects' # SlotObjects =>
            pc \in {"create_sync_objects", "cleanup"}
       /\ compute_descriptor_sets' # compute_descriptor_sets =>
            pc = "create_compute_descriptor_sets"]_vars

\* A recreation has ended in slot 1 and a command buffer recorded for the
\* earlier swapchain is still in its slot as it was recorded.
C32_Witness ==
    /\ swap_chain > 1
    /\ pc \in AdvancePcs \cup {"main_loop"}
    /\ current_frame = 1
    /\ \E i \in DOMAIN command_buffers : command_buffers[i] # NotRecorded
    /\ \E i \in DOMAIN command_buffers : command_buffers[i].chain # swap_chain

\* C33: whenever recreate_swap_chain calls create_swap_chain the framebuffer
\* of the window has a nonzero width and height.
C33_NeverZeroArea == pc = "rs_choose" => fb_nonzero

\* C34: a copy from the staging buffer is pending on the device only while
\* the host is in the vkQueueWaitIdle of the copy_buffer call that submitted
\* it, with the staging buffer alive: none is pending when the staging
\* buffer is destroyed, nor afterwards, nor when main_loop is reached.
C34_CopiesCompleteFirst ==
    /\ \A o \in ops :
          o.kind = "copy" =>
             /\ pc = "queue_wait_idle"
             /\ staging.staging_buffer = "live"
             /\ o.slot = staging.i
    /\ pc = "main_loop" => (ops = {} /\ staging.staging_buffer = "destroyed")

\* The frame loop is about to start after three copies were made.
C34_Witness ==
    /\ pc = "main_loop"
    /\ nframes = 3
    /\ staging = [staging_buffer |-> "destroyed", i |-> 3]

\* A signal of the semaphore is on its way: a pending operation that signals
\* it runs or has everything it waits for.
SignalPending(sem) ==
    \E o \in ops :
       /\ sem \in SignalsOf(o)
       /\ o.phase = "running" \/ \A w \in WaitsOf(o) : Signalled(w)

\* The pending operation runs, or each semaphore it waits for is signalled
\* or about to be.
WillRun(o) ==
    \/ o.phase = "running"
    \/ \A w \in WaitsOf(o) : Signalled(w) \/ SignalPending(w)

\* A submission of the kind with the slot's fence is pending and will run.
Backed(kind, s) == \E o \in OpsOf(kind) : o.slot = s /\ WillRun(o)

\* C35 as stated: every unsignalled fence has a submission pending on the
\* device, in every state of the frame loop.
C35_AlwaysPending ==
    pc # "fatal" =>
       /\ \A s \in DOMAIN in_flight_fences :
             ~in_flight_fences[s] => \E o \in OpsOf("graphics") : o.slot = s
       /\ \A s \in DOMAIN compute_in_flight_fences :
             ~compute_in_flight_fences[s] =>
                \E o \in OpsOf("compute") : o.slot = s

\* C35: every unsignalled fence has a pending submission that signals it and
\* that nothing keeps from running, or the fence is the one of the current
\* slot and the host is between its vkResetFences and the vkQueueSubmit that
\* takes it (or has thrown there); so no fence wait and no drain of the
\* device meets a fence or a submission that nothing will complete.
C35_UnsignalledFenceBacked ==
    /\ \A s \in DOMAIN in_flight_fences :
          ~in_flight_fences[s] =>
             \/ Backed("graphics", s)
             \/ /\ current_frame = s
                /\ pc \in {"cs_record", "cs_submit", "ta_record", "ta_submit",
                            "fatal"}
    /\ \A s \in DOMAIN compute_in_flight_fences :
          ~compute_in_flight_fences[s] =>
             \/ Backed("compute", s)
             \/ /\ current_frame = s
                /\ pc \in {"cs_record_compute", "cs_submit_compute", "fatal"}
    /\ \A o \in ops : pc # "fatal" => WillRun(o)

\* After a recreation the host waits for the unsignalled graphics fence of
\* the current slot while the draw that signals it waits for its semaphores.
C35_Witness ==
    /\ swap_chain > 1
    /\ pc \in {"cs_wait_fence", "ta_wait_fence"}
    /\ ~in_flight_fences[current_frame]
    /\ \E o \in OpsOf("graphics") : o.slot = current_frame /\ o.phase = "queued"

\* The semaphores of create_sync_objects, by array and slot.
Semaphores ==
    {<<"compute_finished", s>> : s \in DOMAIN compute_finished_semaphores}
    \cup {<<"image_available", s>> : s \in DOMAIN image_available_semaphores}
    \cup {<<"render_finished", s>> : s \in DOMAIN render_finished_semaphores}

\* The signals of the semaphore that no wait has consumed: the one it holds
\* and those of the pending operations that signal it.
SignalsOn(sem) ==
    (IF Signalled(sem) THEN 1 ELSE 0)
    + Cardinality({o \in ops : sem \in SignalsOf(o)})

\* The waits on the semaphore that were issued and have not taken place.
WaitsOn(sem) ==
    Cardinality({o \in ops : o.phase = "queued" /\ sem \in WaitsOf(o)})
    + Cardinality({i \in DOMAIN presents :
                      /\ presents[i].phase = "queued"
                      /\ sem \in WaitsOf(presents[i])})

\* C36: for every semaphore the signals given to it and not consumed are
\* matched by the waits issued on it, but for at most one: no signal
\* operation is added while an earlier signal has no wait to consume it, and
\* no wait is issued without a signal for it.
C36_SemaphoreDiscipline ==
    \A sem \in Semaphores : SignalsOn(sem) - WaitsOn(sem) \in {0, 1}

\* C37: when recreate_swap_chain returns to draw_frame, framebuffer_resized
\* is false.
C37_FlagClearAfterRecreate ==
    [][(pc \in RecreatePcs /\ pc' \notin RecreatePcs \cup {"fatal"}) =>
          ~framebuffer_resized']_vars

\* C39: while frames are drawn the colour attachment format of the render
\* pass is the image format of the current swapchain, and every framebuffer
\* is made for the render pass with a swapchain view of that format.
C39_RenderPassMatchesFormat ==
    pc = "frame_loop" =>
       /\ sc.render_pass = sc.swap_chain_image_format
       /\ \A i \in DOMAIN sc.swap_chain_framebuffers :
             LET fb == sc.swap_chain_framebuffers[i]
             IN  fb.attachments[Len(fb.attachments)].format = fb.renderPass

\* C38: the draw of the k-th presented frame shows particles that are k
\* simulation steps from the initial state: when the draw submitted with
\* slot s completes, the storage buffer it draws holds as many steps as the
\* number of its frame among the presented ones.
C38_OneStepPerFrame ==
    [][\A s \in DOMAIN in_flight_fences :
          GraphicsCompletes(s) => sim.steps[s] = sim.frame_of[s]]_vars

====
